---- MODULE Spec2Model ----
(***************************************************************************)
(* DAO proposal lifecycle and membership reconciliation of YaeboProtocol:  *)
(* the proposal mirror store (lib/utils/daoProposals), the membership      *)
(* cache (lib/utils/daoMembership), the membership check of the DAO page   *)
(* (app/dao/page.tsx) and the chain write actions (lib/utils/daoUtils.ts). *)
(***************************************************************************)
EXTENDS Integers, Sequences, FiniteSets, TLC

(***************************************************************************)
(* Bounds of the model.                                                    *)
(***************************************************************************)
\* proposal IDs handed to the mirror store are 1..MaxId
MaxId == 1
\* vote totals handed to updateProposalVotes are 0..MaxVotes
MaxVotes == 1
\* the wall clock advances at most MaxTick times
MaxTick == 1
\* deadlines handed to storeProposalInSupabase are 1..MaxDeadline (seconds)
MaxDeadline == 1

\* one advance of the wall clock, in milliseconds (not a multiple of 1000,
\* so that Math.floor(ms / 1000) is not the identity on the clock)
TickMs == 1500

\* at most MaxCalls write actions are started
MaxCalls == 2

\* proposals created on the chain by other members
MaxChainId == 2
\* votes the contract counts on one proposal
MaxChainVotes == 2
\* program constants (gas prices are counted in gwei)
\* parseUnits("1", "gwei"), the default gas price of joinDao, createProposal
\* and voteProposal
OneGwei == 1
\* parseUnits("20", "gwei"), the default gas price of the other write actions
TwentyGwei == 20
\* the gas limit of mintUSDC and approveUSDC when the estimate fails
FallbackGasToken == 100000
\* the gas limit of buyLot when the estimate fails
FallbackGasBuyLot == 300000
\* the gas limit of withdraw
WithdrawGasLimit == 300000
\* DAO.sol: uint duration = 7 days (also 7 * 24 * 60 * 60 in createProposal)
Duration == 604800
\* MockedUSDC: 10 ** decimals()
TokenUnit == 1000000
\* handleJoinDao: let retries = 10
JoinPollRetries == 10

\* the answers of estimateGas and the gas prices of getFeeData (0 is null)
Estimates == {9}
GasPrices == {0, 3}
\* the token amounts handed to mintUSDC, approveUSDC and buyLot
Amounts == {1}

ProposalIds == 1..MaxId
VoteCounts == 0..MaxVotes
Deadlines == 1..MaxDeadline
Summaries == {"Test", "Test v2"}
\* wallet addresses as the wallet reports them (checksummed, mixed case)
Addresses == {"0xAb", "0xCd"}
\* the address createProposal stores as the creator
Creators == {"0xAb"}
\* receipt.hash of the creating transaction (its number in the model)
TxHashes == {1}

VARIABLES
  dao_proposals,  \* the rows of table dao_proposals
  clockMs,        \* Date.now()
  mirrorCall,     \* the last call of the mirror store (its arguments when it succeeded)
  mirrorResult    \* what that call returned (a sequence of Proposal views for reads)

VARIABLES
  addressToUser,  \* DAO.sol: mapping(address => user), the isMember flag per address
  dao_members,    \* the rows of table dao_members (the membership cache)
  isMember,       \* DAO page: the isMember state
  justJoinedRef,  \* DAO page: justJoinedRef.current
  check,          \* DAO page: the run of checkWalletAndMembership
  walletAddress,  \* DAO page: the walletAddress state ("" when none is shown)
  accountsChanged \* DAO page: the run of handleAccountsChanged

VARIABLES
  wallet,         \* window.ethereum: installed, the selected account, the chain
  signer,         \* daoUtils.ts: let signer ("" is null)
  provider,       \* daoUtils.ts: let provider ("none" is null)
  numProposal,    \* DAO.sol: uint public numProposal
  idToProposal,   \* DAO.sol: mapping (uint => Proposal)
  balanceOf,      \* MockedUSDC: the token balance per address
  allowance,      \* MockedUSDC: the allowance of the DAO contract per owner
  txs,            \* the transactions submitted to the chain, in order
  call,           \* the write action of daoUtils.ts in flight and its position
  trace,          \* the requests the write action in flight has made so far
  callResult,     \* how the last write action ended
  nCalls,         \* write actions started so far
  joining,        \* DAO page: the run of handleJoinDao
  handler,        \* proposal page / purchase form: the run of the handler in flight
  investments,    \* the rows of table investments
  reader,         \* the call of the proposal reader a page awaits, and its result
  suspended,      \* a write action of the session that waits at an await while
                  \* another one runs: its call, trace and result
  callers         \* the sessions that keep the mirror's vote counts: what each
                  \* has read and the totals it writes

mirrorVars == <<dao_proposals, clockMs, mirrorCall, mirrorResult>>
memberVars == <<addressToUser, dao_members, isMember, justJoinedRef, check, walletAddress, accountsChanged>>
writeVars == <<wallet, signer, provider, numProposal, idToProposal, balanceOf,
               allowance, txs, call, trace, callResult, nCalls, joining, handler, investments, reader, suspended, callers>>
vars == <<dao_proposals, clockMs, mirrorCall, mirrorResult,
          addressToUser, dao_members, isMember, justJoinedRef, check,
          walletAddress, accountsChanged,
          wallet, signer, provider, numProposal, idToProposal, balanceOf,
          allowance, txs, call, trace, callResult, nCalls, joining, handler, investments, reader, suspended, callers>>

(***************************************************************************)
(* Conversions                                                             *)
(***************************************************************************)
\* String.prototype.toLowerCase on the addresses of the model
toLowerCase(a) ==
  CASE a = "0xAb" -> "0xab"
    [] a = "0xCd" -> "0xcd"
    [] OTHER -> a

\* new Date(ms).toISOString(): the instant written as whole seconds and
\* milliseconds ("...:SS.mmmZ")
toISOString(ms) == <<ms \div 1000, ms % 1000>>

\* new Date(iso).getTime()
getTime(iso) == iso[1] * 1000 + iso[2]

\* Math.floor(Date.now() / 1000)
NowSec == clockMs \div 1000

\* Math.floor(new Date(row.deadline).getTime() / 1000)
DeadlineSec(row) == getTime(row.deadline) \div 1000

(***************************************************************************)
(* Proposal mirror store (daoProposals)                                    *)
(***************************************************************************)
RowsOf(id) == {r \in dao_proposals : r.proposal_id = id}

\* (mutant) the executed flag is looked at only once the deadline has passed
DeriveStatusDeadlineFirst(deadline, now, executed) ==
  IF deadline <= now
    THEN (IF executed THEN "marketplace" ELSE "closed")
    ELSE "voting"

\* the status computed at read time from deadline, now and executed
DeriveStatus(deadline, now, executed) ==
  IF deadline <= now
    THEN (IF executed THEN "marketplace" ELSE "closed")
    ELSE (IF executed THEN "marketplace" ELSE "voting")

\* the Proposal object built from a row
ToProposal(row) ==
  [ id |-> ToString(row.proposal_id),
    proposalId |-> row.proposal_id,
    lotSize |-> row.lot_size,
    sharePrice |-> row.share_price,
    maxPerInvestor |-> row.max_per_investor,
    proposalSummary |-> row.proposal_summary,
    deadline |-> DeadlineSec(row),
    user |-> row.creator_address,
    yayVotes |-> row.yay_votes,
    nayVotes |-> row.nay_votes,
    executed |-> row.executed,
    status |-> DeriveStatus(DeadlineSec(row), NowSec, row.executed),
    votingEndsAt |-> getTime(row.deadline) ]

\* the row written by storeProposalInSupabase (the write times created_at
\* and updated_at, which no rule of the store reads, are left out of the rows)
NewRow(proposalId, lotSize, sharePrice, maxPerInvestor, proposalSummary, user, deadline, transactionHash) ==
  [ proposal_id |-> proposalId,
    lot_size |-> lotSize,
    share_price |-> sharePrice,
    max_per_investor |-> maxPerInvestor,
    proposal_summary |-> proposalSummary,
    creator_address |-> toLowerCase(user),
    deadline |-> toISOString(deadline * 1000),
    transaction_hash |-> transactionHash,
    yay_votes |-> 0,
    nay_votes |-> 0,
    executed |-> FALSE ]

\* (mutant) a plain insert, without the conflict target
UpsertAsInsert(table, row) == table \cup {row}

\* .upsert(row, { onConflict: 'proposal_id' })
Upsert(table, row) ==
  {r \in table : r.proposal_id # row.proposal_id} \cup {row}

\* (mutant) the totals are added to the stored counters
SetVotesIncrement(table, id, yayVotes, nayVotes) ==
  {IF r.proposal_id = id
     THEN [r EXCEPT !.yay_votes = r.yay_votes + yayVotes,
                    !.nay_votes = r.nay_votes + nayVotes]
     ELSE r : r \in table}

\* .update({ yay_votes, nay_votes }).eq('proposal_id', id)
SetVotes(table, id, yayVotes, nayVotes) ==
  {IF r.proposal_id = id
     THEN [r EXCEPT !.yay_votes = yayVotes, !.nay_votes = nayVotes]
     ELSE r : r \in table}

\* (mutant) an update of executed without the .eq('proposal_id', id) filter
SetExecutedEverywhere(table, id, executed) ==
  {[r EXCEPT !.executed = executed] : r \in table}

\* .update({ executed }).eq('proposal_id', id)
SetExecuted(table, id, executed) ==
  {IF r.proposal_id = id
     THEN [r EXCEPT !.executed = executed]
     ELSE r : r \in table}

\* .select('*').eq('proposal_id', id).single(): one row, else an error
SelectSingle(id) ==
  IF Cardinality(RowsOf(id)) = 1 THEN <<CHOOSE r \in RowsOf(id) : TRUE>> ELSE <<>>

\* .select('*').order('proposal_id', { ascending: false })
RECURSIVE OrderDesc(_)
OrderDesc(rows) ==
  IF rows = {} THEN <<>>
  ELSE LET top == CHOOSE r \in rows : \A q \in rows : q.proposal_id <= r.proposal_id
       IN <<top>> \o OrderDesc(rows \ {top})

\* the summary stored under id before a call ("" when there is no such row)
PriorSummary(id) ==
  IF RowsOf(id) = {} THEN "" ELSE (CHOOSE r \in RowsOf(id) : TRUE).proposal_summary

NoCall == [op |-> "none", proposalId |-> 0, ok |-> TRUE, summary |-> "",
           deadline |-> 0, yay |-> 0, nay |-> 0, executed |-> FALSE, prior |-> ""]

\* storeProposalInSupabase; ok = FALSE is the store answering with an error
storeProposalInSupabase(proposalId, lotSize, sharePrice, maxPerInvestor, proposalSummary, user, deadline, transactionHash, ok) ==
  /\ dao_proposals' =
       IF ok THEN Upsert(dao_proposals,
                         NewRow(proposalId, lotSize, sharePrice, maxPerInvestor,
                                proposalSummary, user, deadline, transactionHash))
             ELSE dao_proposals
  /\ mirrorCall' = IF ok THEN [NoCall EXCEPT !.op = "store", !.proposalId = proposalId,
                                              !.summary = proposalSummary,
                                              !.deadline = deadline,
                                              !.prior = PriorSummary(proposalId)]
                        ELSE [NoCall EXCEPT !.op = "store", !.ok = FALSE]
  /\ mirrorResult' = <<>>
  /\ UNCHANGED clockMs

\* updateProposalVotes
updateProposalVotes(proposalId, yayVotes, nayVotes, ok) ==
  /\ dao_proposals' =
       IF ok THEN SetVotes(dao_proposals, proposalId, yayVotes, nayVotes)
             ELSE dao_proposals
  /\ mirrorCall' = IF ok THEN [NoCall EXCEPT !.op = "votes", !.proposalId = proposalId,
                                              !.yay = yayVotes, !.nay = nayVotes]
                        ELSE [NoCall EXCEPT !.op = "votes", !.ok = FALSE]
  /\ mirrorResult' = <<>>
  /\ UNCHANGED clockMs

\* updateProposalExecution
updateProposalExecution(proposalId, executed, ok) ==
  /\ dao_proposals' =
       IF ok THEN SetExecuted(dao_proposals, proposalId, executed)
             ELSE dao_proposals
  /\ mirrorCall' = IF ok THEN [NoCall EXCEPT !.op = "execution", !.proposalId = proposalId,
                                              !.executed = executed]
                        ELSE [NoCall EXCEPT !.op = "execution", !.ok = FALSE]
  /\ mirrorResult' = <<>>
  /\ UNCHANGED clockMs

\* what getProposalFromSupabase returns when the query succeeds: <<>> is null
ReadById(proposalId) ==
  IF SelectSingle(proposalId) # <<>>
    THEN <<ToProposal(SelectSingle(proposalId)[1])>>
    ELSE <<>>

\* getProposalFromSupabase
getProposalFromSupabase(proposalId, ok) ==
  /\ mirrorResult' = IF ok THEN ReadById(proposalId) ELSE <<>>
  /\ mirrorCall' = [NoCall EXCEPT !.op = "getOne", !.proposalId = proposalId,
                                  !.ok = ok]
  /\ UNCHANGED <<dao_proposals, clockMs>>

\* getProposalsFromSupabase
getProposalsFromSupabase(ok) ==
  /\ mirrorResult' =
       IF ok
         THEN LET rows == OrderDesc(dao_proposals)
              IN [i \in 1..Len(rows) |-> ToProposal(rows[i])]
         ELSE <<>>
  /\ mirrorCall' = [NoCall EXCEPT !.op = "getAll", !.ok = ok]
  /\ UNCHANGED <<dao_proposals, clockMs>>

\* the sessions that update the vote counts of the mirror
Callers == {"first", "second"}

\* a session before it has read the counts
IdleCaller == [pc |-> "idle", proposalId |-> 0, readYay |-> 0, readNay |-> 0,
               yayVotes |-> 0, nayVotes |-> 0, ok |-> FALSE]

\* a session whose vote (0 is yay) was confirmed reads the counts of the
\* proposal from the mirror and adds its vote to them
callerRead(c, proposalId, vote, ok) ==
  /\ callers[c].pc = "idle"
  /\ getProposalFromSupabase(proposalId, ok)
  /\ Len(mirrorResult') > 0
  /\ LET p == mirrorResult'[1]
     IN callers' = [callers EXCEPT ![c] =
          [pc |-> "read", proposalId |-> proposalId,
           readYay |-> p.yayVotes, readNay |-> p.nayVotes,
           yayVotes |-> p.yayVotes + (IF vote = 0 THEN 1 ELSE 0),
           nayVotes |-> p.nayVotes + (IF vote = 0 THEN 0 ELSE 1),
           ok |-> FALSE]]
  /\ UNCHANGED <<wallet, signer, provider, numProposal, idToProposal, balanceOf,
                 allowance, txs, call, trace, callResult, nCalls, joining, handler, investments, reader, suspended>>
  /\ UNCHANGED memberVars

\* the session calls updateProposalVotes with its totals
callerWrite(c, ok) ==
  /\ callers[c].pc = "read"
  /\ updateProposalVotes(callers[c].proposalId, callers[c].yayVotes,
                         callers[c].nayVotes, ok)
  /\ callers' = [callers EXCEPT ![c].pc = "wrote", ![c].ok = ok]
  /\ UNCHANGED <<wallet, signer, provider, numProposal, idToProposal, balanceOf,
                 allowance, txs, call, trace, callResult, nCalls, joining, handler, investments, reader, suspended>>
  /\ UNCHANGED memberVars

\* time passes between two calls
Tick ==
  /\ clockMs < MaxTick * TickMs
  /\ clockMs' = clockMs + TickMs
  /\ mirrorCall' = [NoCall EXCEPT !.op = "tick"]
  /\ mirrorResult' = <<>>
  /\ UNCHANGED dao_proposals
  /\ UNCHANGED memberVars
  /\ UNCHANGED writeVars

(***************************************************************************)
(* Membership: the contract's mapping, the cache table and the check of    *)
(* the DAO page                                                            *)
(***************************************************************************)
\* addresses as the chain knows them
ChainAddresses == {toLowerCase(a) : a \in Addresses}

\* DAO.sol join(): require(msg.value == membership); the sender becomes a member
SolJoin(members, sender, valueIsFee) ==
  IF valueIsFee THEN [members EXCEPT ![toLowerCase(sender)] = TRUE] ELSE members

\* what contract.addressToUser(address) resolves to: the flag in one of the
\* three ABI shapes, or a rejection (RPC or decode error)
Shapes == {"bool", "tuple", "struct"}
RpcReplies == Shapes \cup {"throw"}
AddressToUserCall(address, reply) ==
  [shape |-> reply,
   flag |-> IF reply = "throw" THEN FALSE ELSE addressToUser[toLowerCase(address)]]

\* (mutant) a cache write that keeps the record an address already has
setDaoMembershipKeep(table, address, member, ok) ==
  IF ok /\ ~(\E r \in table : r.wallet_address = toLowerCase(address))
    THEN table \cup {[wallet_address |-> toLowerCase(address), is_member |-> member]}
    ELSE table

\* (mutant) isDaoMember that lets the failure of the read reach its caller
isDaoMemberRethrow(result) ==
  IF result.shape = "throw"
    THEN [threw |-> TRUE, value |-> FALSE]
    ELSE [threw |-> FALSE, value |-> result.flag]

\* (mutant) isDaoMember that answers true when the read fails
isDaoMemberFailOpen(result) ==
  IF result.shape = "throw"
    THEN [threw |-> FALSE, value |-> TRUE]
    ELSE [threw |-> FALSE, value |-> result.flag]

\* isDaoMember: decodes the three shapes; a failed read is caught and
\* answered with false, so the function never throws
isDaoMember(result) ==
  CASE result.shape = "struct" -> [threw |-> FALSE, value |-> result.flag]
    [] result.shape = "bool" -> [threw |-> FALSE, value |-> result.flag]
    [] result.shape = "tuple" -> [threw |-> FALSE, value |-> result.flag]
    [] OTHER -> [threw |-> FALSE, value |-> FALSE]

MemberRowsOf(address) ==
  {r \in dao_members : r.wallet_address = toLowerCase(address)}

\* getDaoMembership: false when the row is missing or the query fails
getDaoMembership(address, ok) ==
  IF ok /\ Cardinality(MemberRowsOf(address)) = 1
    THEN (CHOOSE r \in MemberRowsOf(address) : TRUE).is_member = TRUE
    ELSE FALSE

\* setDaoMembership: upsert on wallet_address; the table after the call
setDaoMembership(table, address, member, ok) ==
  IF ok
    THEN {r \in table : r.wallet_address # toLowerCase(address)}
           \cup {[wallet_address |-> toLowerCase(address),
                  is_member |-> member]}
    ELSE table

\* handleAccountsChanged before it is called: its position and its address
IdleChanged == [pc |-> "idle", address |-> ""]

IdleCheck == [pc |-> "idle", address |-> "", cachedMembership |-> FALSE,
              memberStatus |-> FALSE, retries |-> 0, attempts |-> 0,
              failures |-> 0, hadRecord |-> FALSE, recordWas |-> FALSE,
              answered |-> FALSE, contractStatus |-> FALSE, stored |-> FALSE]

\* checkWalletAndMembership up to the retry loop: the address is shown, the
\* cached value is read and shown optimistically, unless the user has just
\* joined
checkWalletAndMembershipStart(address, cacheOk) ==
  /\ check.pc \in {"idle", "done"}
  /\ IF justJoinedRef
       THEN /\ justJoinedRef' = FALSE
            /\ check' = [IdleCheck EXCEPT !.pc = "done", !.address = address]
            /\ UNCHANGED isMember
       ELSE LET cached == getDaoMembership(address, cacheOk)
            IN /\ isMember' = IF cached THEN TRUE ELSE isMember
               /\ check' = [IdleCheck EXCEPT
                              !.pc = "loop", !.address = address,
                              !.cachedMembership = cached,
                              !.memberStatus = cached, !.retries = 3,
                              !.hadRecord = (MemberRowsOf(address) # {}),
                              !.recordWas = (\E r \in MemberRowsOf(address) : r.is_member)]
               /\ UNCHANGED justJoinedRef
  /\ walletAddress' = address
  /\ UNCHANGED <<addressToUser, dao_members, accountsChanged>>
  /\ UNCHANGED mirrorVars

\* the mount effect for an address, the wallet and the module state left out
CheckStart(address, cacheOk) ==
  /\ checkWalletAndMembershipStart(address, cacheOk)
  /\ UNCHANGED writeVars

\* one turn of the retry loop: the contract read, then the cache write
CheckAttempt(reply, cacheOk) ==
  /\ check.pc = "loop"
  /\ check.retries > 0
  /\ LET r == isDaoMember(AddressToUserCall(check.address, reply))
         failed == IF reply = "throw" THEN 1 ELSE 0
     IN IF ~r.threw
          THEN /\ dao_members' = setDaoMembership(dao_members, check.address, r.value, cacheOk)
               /\ isMember' = r.value
               /\ check' = [check EXCEPT !.pc = "done", !.memberStatus = r.value,
                                         !.attempts = @ + 1, !.failures = @ + failed,
                                         !.answered = (reply # "throw"),
                                         !.contractStatus = r.value,
                                         !.stored = cacheOk]
          ELSE IF check.retries - 1 > 0
            THEN /\ check' = [check EXCEPT !.retries = @ - 1, !.attempts = @ + 1,
                                           !.failures = @ + failed]
                 /\ UNCHANGED <<dao_members, isMember>>
            ELSE /\ check' = [check EXCEPT !.pc = "done", !.retries = @ - 1,
                                           !.attempts = @ + 1, !.failures = @ + failed]
                 /\ IF ~check.cachedMembership /\ ~justJoinedRef
                      THEN /\ isMember' = FALSE
                           /\ dao_members' = setDaoMembership(dao_members, check.address,
                                                              FALSE, cacheOk)
                      ELSE UNCHANGED <<dao_members, isMember>>
  /\ UNCHANGED <<addressToUser, justJoinedRef, walletAddress, accountsChanged>>
  /\ UNCHANGED mirrorVars
  /\ UNCHANGED writeVars

\* a join transaction of some address is mined
ChainJoin(sender) ==
  /\ ~addressToUser[toLowerCase(sender)]
  /\ addressToUser' = SolJoin(addressToUser, sender, TRUE)
  /\ UNCHANGED <<dao_members, isMember, justJoinedRef, check, walletAddress, accountsChanged>>
  /\ UNCHANGED mirrorVars
  /\ UNCHANGED writeVars

MountCheck == \E a \in Addresses, ok \in BOOLEAN : CheckStart(a, ok)

RetryLoop == \E reply \in RpcReplies, ok \in BOOLEAN : CheckAttempt(reply, ok)

MineJoin == \E a \in Addresses : ChainJoin(a)

\* a write the store refuses leaves the same state whatever its arguments:
\* it is drawn once
StoreProposal ==
  \E ok \in BOOLEAN :
    \E id \in (IF ok THEN ProposalIds ELSE {1}) :
      \E s \in (IF ok THEN Summaries ELSE {"Test"}), a \in Creators :
        \E d \in (IF ok THEN Deadlines ELSE {1}), h \in TxHashes :
          /\ storeProposalInSupabase(id, 1000, 10, 5, s, a, d, h, ok)
          /\ UNCHANGED memberVars
          /\ UNCHANGED writeVars

UpdateVotes ==
  \E ok \in BOOLEAN :
    \E id \in (IF ok THEN ProposalIds ELSE {1}) :
      \E y \in (IF ok THEN VoteCounts ELSE {0}) :
        \E n \in (IF ok THEN VoteCounts ELSE {0}) :
          /\ updateProposalVotes(id, y, n, ok)
          /\ UNCHANGED memberVars
          /\ UNCHANGED writeVars

UpdateExecution ==
  \E ok \in BOOLEAN :
    \E id \in (IF ok THEN ProposalIds ELSE {1}) :
      \E e \in (IF ok THEN BOOLEAN ELSE {TRUE}) :
        /\ updateProposalExecution(id, e, ok)
        /\ UNCHANGED memberVars
        /\ UNCHANGED writeVars

\* the mirror calls with the IDs of several proposals, stored or not
StoreOfMany ==
  \E id \in 1..MaxChainId, a \in Creators, h \in TxHashes :
    /\ storeProposalInSupabase(id, 1000, 10, 5, "Test", a, 1, h, TRUE)
    /\ UNCHANGED memberVars
    /\ UNCHANGED writeVars

UpdateVotesOfMany ==
  \E ok \in BOOLEAN :
    \E id \in (IF ok THEN 1..MaxChainId ELSE {1}) :
      \E y \in (IF ok THEN VoteCounts ELSE {0}), n \in (IF ok THEN VoteCounts ELSE {0}) :
        /\ updateProposalVotes(id, y, n, ok)
        /\ UNCHANGED memberVars
        /\ UNCHANGED writeVars

UpdateExecutionOfMany ==
  \E ok \in BOOLEAN :
    \E id \in (IF ok THEN 1..MaxChainId ELSE {1}), e \in (IF ok THEN BOOLEAN ELSE {TRUE}) :
      /\ updateProposalExecution(id, e, ok)
      /\ UNCHANGED memberVars
      /\ UNCHANGED writeVars

CallerRead ==
  \E c \in Callers, id \in ProposalIds, vote \in {0, 1}, ok \in BOOLEAN :
    callerRead(c, id, vote, ok)

CallerWrite == \E c \in Callers, ok \in BOOLEAN : callerWrite(c, ok)

GetProposal ==
  \E id \in ProposalIds, ok \in BOOLEAN :
    /\ getProposalFromSupabase(id, ok)
    /\ UNCHANGED memberVars
    /\ UNCHANGED writeVars

GetProposals ==
  \E ok \in BOOLEAN :
    /\ getProposalsFromSupabase(ok)
    /\ UNCHANGED memberVars
    /\ UNCHANGED writeVars

(***************************************************************************)
(* The contracts: DAO.sol and MockedUSDC                                   *)
(***************************************************************************)
\* the Proposal struct of an ID nothing was written to
EmptyProposal == [yayVotes |-> 0, nayVotes |-> 0, deadline |-> 0, user |-> "",
                  executed |-> FALSE, voted |-> {}]

\* DAO.sol onlyMember
onlyMember(sender) == addressToUser[toLowerCase(sender)]

\* DAO.sol createProposal: numProposal ++ and the new struct
SolCreateProposal(proposals, n, sender) ==
  [proposals EXCEPT ![n + 1] = [EmptyProposal EXCEPT !.deadline = NowSec + Duration,
                                                     !.user = toLowerCase(sender)]]

\* (mutant) a voteProposal without require(!proposal.voted[msg.sender])
SolVoteRevertsNoVotedCheck(proposals, proposalId, sender) ==
  \/ ~onlyMember(sender)
  \/ ~(proposals[proposalId].deadline > NowSec)

\* DAO.sol voteProposal: the requires of the function
SolVoteReverts(proposals, proposalId, sender) ==
  \/ ~onlyMember(sender)
  \/ ~(proposals[proposalId].deadline > NowSec)
  \/ toLowerCase(sender) \in proposals[proposalId].voted

\* DAO.sol voteProposal: the counters and the voted flag
SolVoteProposal(proposals, proposalId, vote, sender) ==
  [proposals EXCEPT
     ![proposalId] = [@ EXCEPT !.yayVotes = IF vote = 0 THEN @ + 1 ELSE @,
                               !.nayVotes = IF vote = 1 THEN @ + 1 ELSE @,
                               !.voted = @ \cup {toLowerCase(sender)}]]

\* DAO.sol executeProposal: the requires of the function
SolExecuteReverts(proposals, proposalId, sender) ==
  \/ ~onlyMember(sender)
  \/ proposals[proposalId].executed

\* (mutant) an executeProposal that marks the proposal it was called for
SolExecuteProposalById(proposals, n, proposalId) ==
  [proposals EXCEPT ![proposalId] = [@ EXCEPT !.executed = TRUE]]

\* DAO.sol executeProposal: idToProposal[numProposal].executed = true
SolExecuteProposal(proposals, n, proposalId) ==
  [proposals EXCEPT ![n] = [@ EXCEPT !.executed = TRUE]]

\* MockedUSDC mintToSelf: _mint(msg.sender, amount * 10 ** decimals())
SolMintToSelf(balances, sender, amount) ==
  [balances EXCEPT ![toLowerCase(sender)] = @ + amount * TokenUnit]

\* ERC20 approve(spender, amount) with the DAO contract as the spender
SolApprove(allowances, sender, amount) ==
  [allowances EXCEPT ![toLowerCase(sender)] = amount]

\* DAO.sol Ownable(msg.sender): the deployer of the contract
contractOwner == toLowerCase("0xAb")

\* would the transaction t revert on the chain as it is now
SolReverts(t) ==
  CASE t.fn = "createProposal" -> ~onlyMember(t.from)
    [] t.fn = "voteProposal" -> SolVoteReverts(idToProposal, t.proposalId, t.from)
    [] t.fn = "executeProposal" -> SolExecuteReverts(idToProposal, t.proposalId, t.from)
    [] t.fn = "withdraw" -> toLowerCase(t.from) # contractOwner
    [] OTHER -> FALSE

(***************************************************************************)
(* The write actions of daoUtils.ts, one awaited request per step          *)
(***************************************************************************)
WriteFns == {"joinDao", "createProposal", "voteProposal", "executeProposal",
             "mintUSDC", "approveUSDC", "buyLot"}

NoTx == 0

IdleCall == [fn |-> "none", pc |-> "idle", caller |-> "", proposalId |-> 0,
             vote |-> 0, amount |-> 0, from |-> "", address |-> "",
             maxId |-> -1, memberRead |-> "none", estimateFailed |-> FALSE,
             gasEstimate |-> 0, gasLimit |-> 0, gasPrice |-> 0,
             tx |-> NoTx, approveTx |-> NoTx, newId |-> 0]

NoResult == [fn |-> "none", outcome |-> "none", error |-> "", tx |-> NoTx,
             call |-> IdleCall]

\* one request of a write action: the function that made it, the request and
\* whether it was answered
Event(op, ok) == [fn |-> call.fn, op |-> op, ok |-> ok]

\* the action the caller awaits (buyLot awaits its own approveUSDC)
RootFn(c) == IF c.caller # "" THEN c.caller ELSE c.fn

\* the write action throws: the error reaches the caller of the root action
Fail(c, kind) ==
  /\ callResult' = [fn |-> RootFn(c), outcome |-> "error", error |-> kind,
                tx |-> NoTx, call |-> c]
  /\ call' = IdleCall

\* (mutant) buyLot goes on without waiting for the approval
AfterApproveNoWait(tx) == "fee"

\* if (approveTx) { await approveTx.wait() } in buyLot
AfterApprove(tx) == IF tx # NoTx THEN "approveWait" ELSE "fee"

\* the write action returns tx (NoTx is null); approveUSDC called by buyLot
\* returns into buyLot, which waits for the approval when there is one
Return(c, tx) ==
  IF c.caller = "buyLot"
    THEN /\ call' = [c EXCEPT !.fn = "buyLot", !.caller = "",
                              !.pc = AfterApprove(tx),
                              !.approveTx = tx, !.tx = NoTx,
                              !.estimateFailed = FALSE]
         /\ UNCHANGED callResult
    ELSE /\ callResult' = [fn |-> c.fn, outcome |-> "ok", error |-> "", tx |-> tx,
                       call |-> c]
         /\ call' = IdleCall

\* no write action waits while another one runs
NoneSuspended == [call |-> IdleCall, trace |-> <<>>, callResult |-> NoResult]

\* the transactions of fn that wait to be mined
Pending(fn) == {i \in 1..Len(txs) : txs[i].fn = fn /\ txs[i].status = "pending"}

\* a write action is entered
Begin(fn, proposalId, vote, amount) ==
  /\ call.fn = "none"
  /\ nCalls < MaxCalls
  /\ fn = "createProposal" => numProposal + Cardinality(Pending(fn)) < MaxId
  /\ call' = [IdleCall EXCEPT !.fn = fn, !.pc = "connect", !.proposalId = proposalId,
                              !.vote = vote, !.amount = amount]
  /\ trace' = <<>>
  /\ callResult' = NoResult
  /\ nCalls' = nCalls + 1

\* (mutant) every action goes from the connection straight to its gas
\* estimation
AfterConnectNoChecks(fn, address) == "estimate"

\* where a write action goes after connectWithMetamask, getContract and (but
\* for createProposal) getCurrentAddress
AfterConnect(fn, address) ==
  CASE fn = "joinDao" -> IF address # "" THEN "member" ELSE "estimate"
    [] fn = "createProposal" -> "estimate"
    [] fn \in {"voteProposal", "executeProposal"} -> "numProposal"
    [] fn = "withdraw" -> "send"
    [] OTHER -> "network"

\* (mutant) a getContract that hands out a contract without a signer
getContractUnchecked(s) == ""

\* getContract and getUSDCContract: if (!signer) throw; the error, or "" for
\* none
getContract(s) == IF s = "" THEN "SignerNotInitialized" ELSE ""

\* withdraw sends with a fixed gas limit and gas price; the other actions
\* set theirs in their later steps
FixedGasLimit(fn) == IF fn = "withdraw" THEN WithdrawGasLimit ELSE 0

FixedGasPrice(fn) == IF fn = "withdraw" THEN TwentyGwei ELSE 0

\* connectWithMetamask, then getContract / getUSDCContract, then
\* getCurrentAddress; approved = FALSE is eth_requestAccounts rejected
connectWithMetamask(approved) ==
  /\ call.pc = "connect"
  /\ IF ~wallet.installed
       THEN /\ provider' = "rpc"
            /\ UNCHANGED <<signer, trace>>
            /\ IF getContract(signer) # ""
                 THEN Fail(call, getContract(signer))
                 ELSE IF call.fn \in {"joinDao", "createProposal", "withdraw"}
                   THEN /\ call' = [call EXCEPT !.pc = AfterConnect(call.fn, ""),
                                                !.from = signer,
                                                !.gasLimit = FixedGasLimit(call.fn),
                                                !.gasPrice = FixedGasPrice(call.fn)]
                        /\ UNCHANGED callResult
                   ELSE Fail(call, "WalletNotConnected")
       ELSE /\ provider' = "browser"
            /\ trace' = trace \o <<Event("eth_chainId", TRUE),
                                   Event("eth_requestAccounts", approved)>>
            /\ IF ~approved
                 THEN /\ UNCHANGED signer
                      /\ Fail(call, "UserRejected")
                 ELSE /\ signer' = wallet.account
                      /\ call' = [call EXCEPT
                                    !.pc = AfterConnect(call.fn, wallet.account),
                                    !.from = wallet.account,
                                    !.address = wallet.account,
                                    !.gasLimit = FixedGasLimit(call.fn),
                                    !.gasPrice = FixedGasPrice(call.fn)]
                      /\ UNCHANGED callResult
  /\ wallet' = IF wallet.installed /\ approved
                 THEN [wallet EXCEPT !.authorized = TRUE]
                 ELSE wallet
  /\ UNCHANGED <<numProposal, idToProposal, balanceOf, allowance, txs,
                 nCalls, joining, handler, investments, reader, suspended, callers>>
  /\ UNCHANGED mirrorVars
  /\ UNCHANGED memberVars

\* checkEtherlinkNetwork in mintUSDC, approveUSDC and buyLot: a failed
\* eth_chainId request counts as the wrong network
checkEtherlinkNetwork(answered) ==
  /\ call.pc = "network"
  /\ trace' = Append(trace, Event("eth_chainId", answered))
  /\ IF answered /\ wallet.onEtherlink
       THEN /\ call' = [call EXCEPT !.pc = CASE call.fn = "mintUSDC" -> "fee"
                                            [] call.fn = "approveUSDC" -> "allowance"
                                            [] OTHER -> "balance"]
            /\ UNCHANGED callResult
       ELSE Fail(call, "WrongNetwork")
  /\ UNCHANGED <<wallet, signer, provider, numProposal, idToProposal, balanceOf,
                 allowance, txs, nCalls, joining, handler, investments, reader, suspended, callers>>
  /\ UNCHANGED mirrorVars
  /\ UNCHANGED memberVars

\* (mutant) a range check that lets numProposal() + 1 through
RangeCheckOffByOne(proposalId, maxId) ==
  IF proposalId < 1 \/ proposalId > maxId + 1 THEN "InvalidProposalId" ELSE ""

\* if (proposalId < 1 || proposalId > maxId) throw: the error, or "" for none
RangeCheck(proposalId, maxId) ==
  IF proposalId < 1 \/ proposalId > maxId THEN "InvalidProposalId" ELSE ""

\* step 1 of voteProposal and executeProposal: numProposal() and the range
\* check
verifyProposalId(answered) ==
  /\ call.pc = "numProposal"
  /\ trace' = Append(trace, Event("numProposal", answered))
  /\ IF ~answered
       THEN Fail(call, "ProposalIdUnverified")
       ELSE LET c == [call EXCEPT !.maxId = numProposal]
            IN IF RangeCheck(c.proposalId, c.maxId) # ""
                 THEN Fail(c, RangeCheck(c.proposalId, c.maxId))
                 ELSE /\ call' = [c EXCEPT !.pc = IF c.fn = "voteProposal"
                                                    THEN "member" ELSE "estimate"]
                      /\ UNCHANGED callResult
  /\ UNCHANGED <<wallet, signer, provider, numProposal, idToProposal, balanceOf,
                 allowance, txs, nCalls, joining, handler, investments, reader, suspended, callers>>
  /\ UNCHANGED mirrorVars
  /\ UNCHANGED memberVars

\* (mutant) a membership gate that lets everybody through
MembershipGateOpen(fn, member) == ""

\* what the membership read means to the action: joinDao refuses a member,
\* voteProposal refuses a non-member; the error, or "" for none
MembershipGate(fn, member) ==
  CASE fn = "joinDao" /\ member -> "AlreadyMember"
    [] fn = "voteProposal" /\ ~member -> "NotMember"
    [] OTHER -> ""

\* the membership read of joinDao and of voteProposal
verifyMembership(reply) ==
  /\ call.pc = "member"
  /\ LET r == isDaoMember(AddressToUserCall(call.address, reply))
         c == [call EXCEPT !.memberRead = IF r.value THEN "true" ELSE "false"]
     IN /\ trace' = Append(trace, Event("addressToUser", reply # "throw"))
        /\ IF MembershipGate(c.fn, r.value) # ""
             THEN Fail(c, MembershipGate(c.fn, r.value))
             ELSE /\ call' = [c EXCEPT !.pc = "estimate"]
                  /\ UNCHANGED callResult
  /\ UNCHANGED <<wallet, signer, provider, numProposal, idToProposal, balanceOf,
                 allowance, txs, nCalls, joining, handler, investments, reader, suspended, callers>>
  /\ UNCHANGED mirrorVars
  /\ UNCHANGED memberVars

\* (mutant) a buffer of a fifth, rounded up
GasLimitRoundedUp(gasEstimate) == gasEstimate + (gasEstimate + 4) \div 5

\* gasEstimate + gasEstimate / 5n
GasLimitWithBuffer(gasEstimate) == gasEstimate + gasEstimate \div 5

\* (mutant) every write action falls back to a fixed gas limit
EstimateFallbackEverywhere(fn) == FallbackGasBuyLot

\* the gas limit a write action uses when estimateGas throws; 0 when the
\* action has no fallback and throws instead
EstimateFallback(fn) ==
  CASE fn = "mintUSDC" -> FallbackGasToken
    [] fn = "approveUSDC" -> FallbackGasToken
    [] fn = "buyLot" -> FallbackGasBuyLot
    [] OTHER -> 0

\* the fee data is read before the estimate in the token actions and in
\* buyLot, after it in the others
TokenFns == {"mintUSDC", "approveUSDC", "buyLot"}

\* contract.<fn>.estimateGas(...): the node rejects the estimate of a call
\* that would revert, and any estimate can fail in transit
estimateGas(answered, gas) ==
  /\ call.pc = "estimate"
  /\ answered =>
       ~SolReverts([fn |-> call.fn, from |-> call.from, proposalId |-> call.proposalId])
  /\ trace' = Append(trace, Event("estimateGas", answered))
  /\ LET next == IF call.fn \in TokenFns THEN "send" ELSE "fee"
     IN IF ~answered
          THEN IF EstimateFallback(call.fn) = 0
                 THEN Fail([call EXCEPT !.estimateFailed = TRUE], "EstimateFailed")
                 ELSE /\ call' = [call EXCEPT !.estimateFailed = TRUE,
                                              !.gasLimit = EstimateFallback(call.fn),
                                              !.pc = next]
                      /\ UNCHANGED callResult
          ELSE /\ call' = [call EXCEPT !.gasEstimate = gas,
                                       !.gasLimit = GasLimitWithBuffer(gas),
                                       !.pc = next]
               /\ UNCHANGED callResult
  /\ UNCHANGED <<wallet, signer, provider, numProposal, idToProposal, balanceOf,
                 allowance, txs, nCalls, joining, handler, investments, reader, suspended, callers>>
  /\ UNCHANGED mirrorVars
  /\ UNCHANGED memberVars

\* the write actions that catch a failure of getFeeData
FeeGuardedFns == {"joinDao", "createProposal", "voteProposal"}

\* feeData.gasPrice || parseUnits(default, "gwei")
DefaultGasPrice(fn) == IF fn \in FeeGuardedFns THEN OneGwei ELSE TwentyGwei

\* provider.getFeeData(): a gas price, null (0) or a rejection
getFeeData(answered, gasPrice) ==
  /\ call.pc = "fee"
  /\ trace' = Append(trace, Event("getFeeData", answered))
  /\ LET next == IF call.fn \in TokenFns THEN "estimate" ELSE "send"
     IN IF ~answered /\ call.fn \notin FeeGuardedFns
          THEN Fail(call, "FeeDataFailed")
          ELSE /\ call' = [call EXCEPT
                             !.gasPrice = IF ~answered \/ gasPrice = 0
                                            THEN DefaultGasPrice(call.fn)
                                            ELSE gasPrice,
                             !.pc = next]
               /\ UNCHANGED callResult
  /\ UNCHANGED <<wallet, signer, provider, numProposal, idToProposal, balanceOf,
                 allowance, txs, nCalls, joining, handler, investments, reader, suspended, callers>>
  /\ UNCHANGED mirrorVars
  /\ UNCHANGED memberVars

\* usdcContract.allowance(address, daoContractAddress) in approveUSDC
checkAllowance(answered) ==
  /\ call.pc = "allowance"
  /\ trace' = Append(trace, Event("allowance", answered))
  /\ IF ~answered
       THEN Fail(call, "AllowanceReadFailed")
       ELSE IF allowance[toLowerCase(call.address)] >= call.amount
         THEN Return(call, NoTx)
         ELSE /\ call' = [call EXCEPT !.pc = "fee"]
              /\ UNCHANGED callResult
  /\ UNCHANGED <<wallet, signer, provider, numProposal, idToProposal, balanceOf,
                 allowance, txs, nCalls, joining, handler, investments, reader, suspended, callers>>
  /\ UNCHANGED mirrorVars
  /\ UNCHANGED memberVars

\* checkUSDCBalance(amount) in buyLot, then the call of approveUSDC(amount)
checkUSDCBalance(answered) ==
  /\ call.pc = "balance"
  /\ trace' = Append(trace, Event("balanceOf", answered))
  /\ IF ~answered
       THEN Fail(call, "BalanceReadFailed")
       ELSE IF ~(balanceOf[toLowerCase(call.address)] >= call.amount)
         THEN Fail(call, "InsufficientBalance")
         ELSE /\ call' = [call EXCEPT !.fn = "approveUSDC", !.caller = "buyLot",
                                      !.pc = "connect"]
              /\ UNCHANGED callResult
  /\ UNCHANGED <<wallet, signer, provider, numProposal, idToProposal, balanceOf,
                 allowance, txs, nCalls, joining, handler, investments, reader, suspended, callers>>
  /\ UNCHANGED mirrorVars
  /\ UNCHANGED memberVars

\* contract.<fn>(..., { gasPrice, gasLimit }): the wallet signs and submits,
\* or the request is rejected
sendTransaction(accepted) ==
  /\ call.pc = "send"
  /\ trace' = Append(trace, Event("send", accepted))
  /\ IF ~accepted
       THEN /\ Fail(call, "SendFailed")
            /\ UNCHANGED txs
       ELSE LET c == [call EXCEPT !.tx = Len(txs) + 1]
            IN /\ txs' = Append(txs, [fn |-> call.fn, from |-> call.from,
                                      proposalId |-> call.proposalId,
                                      vote |-> call.vote, amount |-> call.amount,
                                      gasLimit |-> call.gasLimit,
                                      estimated |-> ~call.estimateFailed,
                                      status |-> "pending", newId |-> 0])
               /\ IF call.fn = "createProposal"
                    THEN /\ call' = [c EXCEPT !.pc = "wait"]
                         /\ UNCHANGED callResult
                    ELSE Return(c, c.tx)
  /\ UNCHANGED <<wallet, signer, provider, numProposal, idToProposal, balanceOf,
                 allowance, nCalls, joining, handler, investments, reader, suspended, callers>>
  /\ UNCHANGED mirrorVars
  /\ UNCHANGED memberVars

\* await approveTx.wait() in buyLot
waitApproval ==
  /\ call.pc = "approveWait"
  /\ txs[call.approveTx].status # "pending"
  /\ trace' = Append(trace, Event("wait", txs[call.approveTx].status = "confirmed"))
  /\ IF txs[call.approveTx].status = "confirmed"
       THEN /\ call' = [call EXCEPT !.pc = "fee"]
            /\ UNCHANGED callResult
       ELSE Fail(call, "TxReverted")
  /\ UNCHANGED <<wallet, signer, provider, numProposal, idToProposal, balanceOf,
                 allowance, txs, nCalls, joining, handler, investments, reader, suspended, callers>>
  /\ UNCHANGED mirrorVars
  /\ UNCHANGED memberVars

\* (mutant) a tx.wait() that resolves for a reverted transaction too
WaitResolvesAlways(t) == TRUE

\* await tx.wait() of a mined transaction: resolves with the receipt of a
\* confirmed one, rejects for a reverted one
WaitResolves(t) == t.status = "confirmed"

\* createProposal after the send: await tx.wait(), then the proposal ID from
\* the proposalCreated event, else from numProposal(), else none (0)
waitReceipt(parsed, answered) ==
  /\ call.pc = "wait"
  /\ txs[call.tx].status # "pending"
  /\ trace' = Append(trace, Event("wait", WaitResolves(txs[call.tx])))
  /\ IF WaitResolves(txs[call.tx])
       THEN /\ call' = [call EXCEPT
                          !.newId = IF parsed THEN txs[call.tx].newId
                                    ELSE IF answered THEN numProposal ELSE 0,
                          !.pc = "store"]
            /\ UNCHANGED callResult
       ELSE Fail(call, "TxReverted")
  /\ UNCHANGED <<wallet, signer, provider, numProposal, idToProposal, balanceOf,
                 allowance, txs, nCalls, joining, handler, investments, reader, suspended, callers>>
  /\ UNCHANGED mirrorVars
  /\ UNCHANGED memberVars

\* createProposal, the mirror write: storeProposalInSupabase with a deadline
\* 7 days from now, skipped without an ID or an address; its failure is
\* swallowed and the transaction is returned
storeCreated(ok) ==
  /\ call.pc = "store"
  /\ IF call.newId > 0 /\ wallet.installed
       THEN /\ storeProposalInSupabase(call.newId, 1000, 10, 5, "Test", signer,
                                       NowSec + Duration, call.tx, ok)
            /\ trace' = Append(trace, Event("store", ok))
       ELSE UNCHANGED <<dao_proposals, clockMs, mirrorCall, mirrorResult, trace>>
  /\ Return(call, call.tx)
  /\ UNCHANGED <<wallet, signer, provider, numProposal, idToProposal, balanceOf,
                 allowance, txs, nCalls, joining, handler, investments, reader, suspended, callers>>
  /\ UNCHANGED memberVars

\* a pending transaction is mined: it reverts, or the contract function runs
Mine(i) ==
  /\ i \in 1..Len(txs)
  /\ txs[i].status = "pending"
  /\ LET t == txs[i]
         reverts == SolReverts(t)
     IN /\ txs' = [txs EXCEPT ![i] = [@ EXCEPT
                     !.status = IF reverts THEN "reverted" ELSE "confirmed",
                     !.newId = IF t.fn = "createProposal" /\ ~reverts
                                 THEN numProposal + 1 ELSE 0]]
        /\ addressToUser' = IF t.fn = "joinDao"
                              THEN SolJoin(addressToUser, t.from, TRUE)
                              ELSE addressToUser
        /\ numProposal' = IF t.fn = "createProposal" /\ ~reverts
                            THEN numProposal + 1 ELSE numProposal
        /\ idToProposal' =
             CASE reverts -> idToProposal
               [] t.fn = "createProposal" ->
                    SolCreateProposal(idToProposal, numProposal, t.from)
               [] t.fn = "voteProposal" ->
                    SolVoteProposal(idToProposal, t.proposalId, t.vote, t.from)
               [] t.fn = "executeProposal" ->
                    SolExecuteProposal(idToProposal, numProposal, t.proposalId)
               [] OTHER -> idToProposal
        /\ balanceOf' = IF t.fn = "mintUSDC"
                          THEN SolMintToSelf(balanceOf, t.from, t.amount)
                          ELSE balanceOf
        /\ allowance' = IF t.fn = "approveUSDC"
                          THEN SolApprove(allowance, t.from, t.amount)
                          ELSE allowance
  /\ UNCHANGED <<wallet, signer, provider, call, trace, callResult, nCalls, joining, handler, investments, reader, suspended, callers>>
  /\ UNCHANGED <<dao_members, isMember, justJoinedRef, check, walletAddress, accountsChanged>>
  /\ UNCHANGED mirrorVars

\* another member's executeProposal is mined (sent from another browser)
ChainExecute(sender, proposalId) ==
  /\ proposalId \in 1..numProposal
  /\ ~SolExecuteReverts(idToProposal, proposalId, sender)
  /\ idToProposal' = SolExecuteProposal(idToProposal, numProposal, proposalId)
  /\ UNCHANGED <<wallet, signer, provider, numProposal, balanceOf, allowance, txs,
                 call, trace, callResult, nCalls, joining, handler, investments, reader, suspended, callers>>
  /\ UNCHANGED mirrorVars
  /\ UNCHANGED memberVars

\* a voteProposal sent from any session is mined and does not revert (a
\* reverted one changes nothing)
ChainVote(sender, proposalId, vote) ==
  /\ ~SolVoteReverts(idToProposal, proposalId, sender)
  /\ idToProposal[proposalId].yayVotes + idToProposal[proposalId].nayVotes < MaxChainVotes
  /\ idToProposal' = SolVoteProposal(idToProposal, proposalId, vote, sender)
  /\ UNCHANGED <<wallet, signer, provider, numProposal, balanceOf, allowance, txs,
                 call, trace, callResult, nCalls, joining, handler, investments, reader, suspended, callers>>
  /\ UNCHANGED mirrorVars
  /\ UNCHANGED memberVars

\* the voting period (7 days) passes on the chain's clock and on the wall clock
DurationPasses ==
  /\ clockMs < Duration * 1000
  /\ clockMs' = clockMs + Duration * 1000
  /\ mirrorCall' = [NoCall EXCEPT !.op = "tick"]
  /\ mirrorResult' = <<>>
  /\ UNCHANGED dao_proposals
  /\ UNCHANGED memberVars
  /\ UNCHANGED writeVars

\* a mintToSelf of the account, sent from another session, is mined
ChainMint(owner, amount) ==
  /\ balanceOf[toLowerCase(owner)] = 0
  /\ balanceOf' = SolMintToSelf(balanceOf, owner, amount)
  /\ UNCHANGED <<wallet, signer, provider, numProposal, idToProposal, allowance, txs,
                 call, trace, callResult, nCalls, joining, handler, investments, reader, suspended, callers>>
  /\ UNCHANGED mirrorVars
  /\ UNCHANGED memberVars

\* an approve of the account for the DAO contract, sent from another session,
\* is mined
ChainApprove(owner, amount) ==
  /\ allowance[toLowerCase(owner)] # amount
  /\ allowance' = SolApprove(allowance, owner, amount)
  /\ UNCHANGED <<wallet, signer, provider, numProposal, idToProposal, balanceOf, txs,
                 call, trace, callResult, nCalls, joining, handler, investments, reader, suspended, callers>>
  /\ UNCHANGED mirrorVars
  /\ UNCHANGED memberVars

\* a write action waits at an await and the event loop runs another task of
\* the page: the running write action and the waiting one change places
yield ==
  /\ call.fn # "none" \/ suspended.call.fn # "none"
  /\ suspended' = [call |-> call, trace |-> trace, callResult |-> callResult]
  /\ call' = suspended.call
  /\ trace' = suspended.trace
  /\ callResult' = suspended.callResult
  /\ UNCHANGED <<wallet, signer, provider, numProposal, idToProposal, balanceOf,
                 allowance, txs, nCalls, joining, handler, investments, reader, callers>>
  /\ UNCHANGED mirrorVars
  /\ UNCHANGED memberVars

\* the wallet extension is injected into the page
InstallWallet ==
  /\ ~wallet.installed
  /\ wallet' = [wallet EXCEPT !.installed = TRUE]
  /\ UNCHANGED <<signer, provider, numProposal, idToProposal, balanceOf,
                 allowance, txs, call, trace, callResult, nCalls, joining, handler, investments, reader, suspended, callers>>
  /\ UNCHANGED mirrorVars
  /\ UNCHANGED memberVars

\* the user selects another chain in the wallet, between two actions of the
\* pages
WalletChange(onEtherlink) ==
  /\ wallet.installed
  /\ call.fn = "none"
  /\ joining.pc \in {"idle", "done"}
  /\ handler.pc \in {"idle", "done"}
  /\ wallet.onEtherlink # onEtherlink
  /\ wallet' = [wallet EXCEPT !.onEtherlink = onEtherlink]
  /\ UNCHANGED <<signer, provider, numProposal, idToProposal, balanceOf,
                 allowance, txs, call, trace, callResult, nCalls, joining, handler, investments, reader, suspended, callers>>
  /\ UNCHANGED mirrorVars
  /\ UNCHANGED memberVars

\* the user selects another account in the wallet, between two actions of
\* the pages; the accountsChanged handlers of the pages set page state only,
\* the signer of daoUtils.ts stays as it is
AccountChange(account) ==
  /\ wallet.installed
  /\ call.fn = "none"
  /\ joining.pc \in {"idle", "done"}
  /\ handler.pc \in {"idle", "done"}
  /\ wallet.account # account
  /\ wallet' = [wallet EXCEPT !.account = account]
  /\ UNCHANGED <<signer, provider, numProposal, idToProposal, balanceOf,
                 allowance, txs, call, trace, callResult, nCalls, joining, handler, investments, reader, suspended, callers>>
  /\ UNCHANGED mirrorVars
  /\ UNCHANGED memberVars

(***************************************************************************)
(* handleJoinDao of the DAO page                                           *)
(***************************************************************************)
IdleJoin == [pc |-> "idle", address |-> "", retries |-> 0, outcome |-> "none",
             called |-> FALSE, tx |-> NoTx, polls |-> 0, toast |-> "",
             stored |-> FALSE]

\* (mutant) the unverified join is announced like the verified one
ToastSameForAll(outcome) ==
  CASE outcome = "already" -> "You are already a member of the DAO"
    [] outcome = "error" -> "Failed to join DAO"
    [] OTHER -> "Successfully joined the DAO!"

\* the toast handleJoinDao shows for each way it ends
Toast(outcome) ==
  CASE outcome = "already" -> "You are already a member of the DAO"
    [] outcome = "error" -> "Failed to join DAO"
    [] outcome = "unverified" ->
         "Successfully joined the DAO! (Membership verification pending)"
    [] OTHER -> "Successfully joined the DAO!"

\* (mutant) a turn of the verification loop that does not use up a retry
RetriesAfterPollStuck(retries) == retries

\* retries-- at the end of a turn of the verification loop
RetriesAfterPoll(retries) == retries - 1

\* getCurrentAddress: null ("") without a wallet; the signer's address when
\* there is a signer; else the first account eth_accounts reports, if any
getCurrentAddress(answered) ==
  CASE ~wallet.installed -> ""
    [] signer # "" -> signer
    [] answered /\ wallet.authorized -> wallet.account
    [] OTHER -> ""

\* getCurrentAddress calls initializeProvider when it found an account and
\* there is no provider yet
ProviderAfterGetCurrentAddress(answered) ==
  IF wallet.installed /\ signer = "" /\ answered /\ wallet.authorized
       /\ provider = "none"
    THEN "browser"
    ELSE provider

\* (mutant) an initializeProvider that asks for the accounts with a prompt
InitializeProviderPrompting(accountsAnswered) ==
  <<[fn |-> "initializeProvider", op |-> "eth_requestAccounts",
     ok |-> accountsAnswered]>>

\* the wallet requests of initializeProvider: none without a wallet; else
\* eth_accounts and, when it reports an account, the eth_chainId of
\* checkEtherlinkNetwork
InitializeProviderRequests(accountsAnswered) ==
  IF ~wallet.installed THEN <<>>
  ELSE <<[fn |-> "initializeProvider", op |-> "eth_accounts",
          ok |-> accountsAnswered]>>
       \o (IF accountsAnswered /\ wallet.authorized
             THEN <<[fn |-> "initializeProvider", op |-> "eth_chainId", ok |-> TRUE]>>
             ELSE <<>>)

\* a page calls initializeProvider: the provider is set, the signer is null
\* in every branch
initializeProvider(accountsAnswered) ==
  /\ call.fn = "none"
  /\ joining.pc \in {"idle", "done"}
  /\ handler.pc \in {"idle", "done"}
  /\ provider' = IF wallet.installed THEN "browser" ELSE "rpc"
  /\ signer' = ""
  /\ trace' = InitializeProviderRequests(accountsAnswered)
  /\ callResult' = [NoResult EXCEPT !.fn = "initializeProvider", !.outcome = "ok"]
  /\ UNCHANGED <<wallet, numProposal, idToProposal, balanceOf, allowance, txs, call,
                 nCalls, joining, handler, investments, reader, suspended, callers>>
  /\ UNCHANGED mirrorVars
  /\ UNCHANGED memberVars

\* the wallet requests of getCurrentAddress: none without a wallet or with a
\* signer; else eth_accounts, and those of initializeProvider when an account
\* was found and there is no provider yet
GetCurrentAddressRequests(answered, nested) ==
  IF ~wallet.installed \/ signer # "" THEN <<>>
  ELSE <<[fn |-> "getCurrentAddress", op |-> "eth_accounts", ok |-> answered]>>
       \o (IF answered /\ wallet.authorized /\ provider = "none"
             THEN InitializeProviderRequests(nested)
             ELSE <<>>)

\* a page calls getCurrentAddress; the address it returns ("" is null) is
\* kept in the result
currentAddress(answered, nested) ==
  /\ call.fn = "none"
  /\ joining.pc \in {"idle", "done"}
  /\ handler.pc \in {"idle", "done"}
  /\ provider' = ProviderAfterGetCurrentAddress(answered)
  /\ trace' = GetCurrentAddressRequests(answered, nested)
  /\ callResult' = [NoResult EXCEPT !.fn = "getCurrentAddress", !.outcome = "ok",
                                    !.call = [IdleCall EXCEPT
                                                !.address = getCurrentAddress(answered)]]
  /\ UNCHANGED <<wallet, signer, numProposal, idToProposal, balanceOf, allowance, txs,
                 call, nCalls, joining, handler, investments, reader, suspended, callers>>
  /\ UNCHANGED mirrorVars
  /\ UNCHANGED memberVars

\* how the wallet answers wallet_switchEthereumChain: it switches, it does
\* not know the chain (error code 4902), or the user rejects
SwitchReplies == {"ok", "4902", "rejected"}

\* the wallet requests of switchToEtherlinkNetwork: the switch, and after a
\* 4902 the add-chain request, after which the function returns
SwitchRequests(reply, added) ==
  <<[fn |-> "switchToEtherlinkNetwork", op |-> "wallet_switchEthereumChain",
     ok |-> reply = "ok"]>>
  \o (IF reply = "4902"
        THEN <<[fn |-> "switchToEtherlinkNetwork", op |-> "wallet_addEthereumChain",
                ok |-> added]>>
        ELSE <<>>)

\* what switchToEtherlinkNetwork throws, "" when it returns true
SwitchError(reply, added) ==
  CASE ~wallet.installed -> "MetaMaskNotInstalled"
    [] reply = "rejected" -> "UserRejected"
    [] reply = "4902" /\ ~added -> "UserRejected"
    [] OTHER -> ""

\* a page calls switchToEtherlinkNetwork; activated: the wallet makes the
\* chain it has just added the active one
switchToEtherlinkNetwork(reply, added, activated) ==
  /\ call.fn = "none"
  /\ joining.pc \in {"idle", "done"}
  /\ handler.pc \in {"idle", "done"}
  /\ trace' = IF wallet.installed THEN SwitchRequests(reply, added) ELSE <<>>
  /\ callResult' = [NoResult EXCEPT
                      !.fn = "switchToEtherlinkNetwork",
                      !.outcome = IF SwitchError(reply, added) = "" THEN "ok" ELSE "error",
                      !.error = SwitchError(reply, added)]
  /\ wallet' = IF wallet.installed
                    /\ (reply = "ok" \/ (reply = "4902" /\ added /\ activated))
                 THEN [wallet EXCEPT !.onEtherlink = TRUE]
                 ELSE wallet
  /\ UNCHANGED <<signer, provider, numProposal, idToProposal, balanceOf, allowance,
                 txs, call, nCalls, joining, handler, investments, reader, suspended, callers>>
  /\ UNCHANGED mirrorVars
  /\ UNCHANGED memberVars

\* handleJoinDao is entered: the address is looked up; without one, joinDao
\* is called at once
handleJoinDaoStart(answered) ==
  /\ joining.pc \in {"idle", "done"}
  /\ handler.pc \in {"idle", "done"}
  /\ call.fn = "none"
  /\ nCalls < MaxCalls
  /\ provider' = ProviderAfterGetCurrentAddress(answered)
  /\ LET a == getCurrentAddress(answered)
     IN IF a # ""
          THEN /\ joining' = [IdleJoin EXCEPT !.pc = "precheck", !.address = a]
               /\ UNCHANGED <<call, trace, callResult, nCalls>>
          ELSE /\ joining' = [IdleJoin EXCEPT !.pc = "joinDao", !.called = TRUE]
               /\ Begin("joinDao", 0, 0, 0)
  /\ UNCHANGED <<wallet, signer, numProposal, idToProposal, balanceOf, allowance, txs>>
  /\ UNCHANGED <<handler, investments, reader, suspended, callers>>
  /\ UNCHANGED mirrorVars
  /\ UNCHANGED memberVars

\* the membership read before joining: a member is shown as one and cached,
\* and joinDao is not called; otherwise joinDao("0.1") is called
handleJoinDaoPrecheck(reply, cacheOk) ==
  /\ joining.pc = "precheck"
  /\ LET r == isDaoMember(AddressToUserCall(joining.address, reply))
     IN IF r.value
          THEN /\ isMember' = TRUE
               /\ dao_members' = setDaoMembership(dao_members, joining.address,
                                                  TRUE, cacheOk)
               /\ joining' = [joining EXCEPT !.pc = "done", !.outcome = "already",
                                                 !.toast = Toast("already")]
               /\ UNCHANGED <<call, trace, callResult, nCalls>>
          ELSE /\ joining' = [joining EXCEPT !.pc = "joinDao", !.called = TRUE]
               /\ Begin("joinDao", 0, 0, 0)
               /\ UNCHANGED <<isMember, dao_members>>
  /\ UNCHANGED <<wallet, signer, provider, numProposal, idToProposal, balanceOf,
                 allowance, txs>>
  /\ UNCHANGED <<addressToUser, justJoinedRef, check, walletAddress, accountsChanged>>
  /\ UNCHANGED <<handler, investments, reader, suspended, callers>>
  /\ UNCHANGED mirrorVars

\* joinDao has returned or thrown: the handler goes on to wait for the
\* transaction, or its catch block handles the error
handleJoinDaoResult(cacheOk) ==
  /\ joining.pc = "joinDao"
  /\ call.fn = "none"
  /\ callResult.fn = "joinDao"
  /\ IF callResult.outcome = "ok"
       THEN /\ joining' = [joining EXCEPT !.pc = "wait", !.tx = callResult.tx]
            /\ UNCHANGED <<isMember, dao_members>>
       ELSE IF callResult.error = "AlreadyMember"
         THEN /\ isMember' = TRUE
              /\ dao_members' = IF joining.address # ""
                                  THEN setDaoMembership(dao_members, joining.address,
                                                        TRUE, cacheOk)
                                  ELSE dao_members
              /\ joining' = [joining EXCEPT !.pc = "done", !.outcome = "already",
                                                 !.toast = Toast("already")]
         ELSE /\ joining' = [joining EXCEPT !.pc = "done", !.outcome = "error",
                                                 !.toast = Toast("error")]
              /\ UNCHANGED <<isMember, dao_members>>
  /\ UNCHANGED <<wallet, signer, provider, numProposal, idToProposal, balanceOf,
                 allowance, txs, call, trace, callResult, nCalls>>
  /\ UNCHANGED <<addressToUser, justJoinedRef, check, walletAddress, accountsChanged>>
  /\ UNCHANGED <<handler, investments, reader, suspended, callers>>
  /\ UNCHANGED mirrorVars

\* await tx.wait(): a reverted transaction goes to the catch block; after a
\* confirmed one the address is looked up again if there was none
handleJoinDaoWait(answered) ==
  /\ joining.pc = "wait"
  /\ txs[joining.tx].status # "pending"
  /\ IF txs[joining.tx].status = "reverted"
       THEN /\ joining' = [joining EXCEPT !.pc = "done", !.outcome = "error",
                                                 !.toast = Toast("error")]
            /\ UNCHANGED <<isMember, justJoinedRef, provider>>
       ELSE LET a == IF joining.address # "" THEN joining.address
                     ELSE getCurrentAddress(answered)
            IN /\ provider' = IF joining.address # "" THEN provider
                              ELSE ProviderAfterGetCurrentAddress(answered)
               /\ IF a # ""
                    THEN /\ joining' = [joining EXCEPT !.pc = "poll", !.address = a,
                                                       !.retries = JoinPollRetries]
                         /\ UNCHANGED <<isMember, justJoinedRef>>
                    ELSE /\ joining' = [joining EXCEPT !.pc = "done",
                                                       !.outcome = "joined",
                                                       !.toast = Toast("joined")]
                         /\ justJoinedRef' = TRUE
                         /\ isMember' = TRUE
  /\ UNCHANGED <<wallet, signer, numProposal, idToProposal, balanceOf,
                 allowance, txs, call, trace, callResult, nCalls>>
  /\ UNCHANGED <<addressToUser, dao_members, check, walletAddress, accountsChanged>>
  /\ UNCHANGED <<handler, investments, reader, suspended, callers>>
  /\ UNCHANGED mirrorVars

\* one turn of the verification loop; when the last turn fails too, the
\* membership is assumed
handleJoinDaoPoll(reply, cacheOk) ==
  /\ joining.pc = "poll"
  /\ joining.retries > 0
  /\ LET r == isDaoMember(AddressToUserCall(joining.address, reply))
         verified == ~r.threw /\ r.value
         left == IF verified THEN joining.retries
                 ELSE RetriesAfterPoll(joining.retries)
         outcome == IF verified THEN "verified" ELSE "unverified"
     IN IF verified \/ left = 0
          THEN /\ justJoinedRef' = TRUE
               /\ isMember' = TRUE
               /\ dao_members' = setDaoMembership(dao_members, joining.address,
                                                  TRUE, cacheOk)
               /\ joining' = [joining EXCEPT
                                !.pc = "done", !.retries = left,
                                !.polls = @ + 1, !.stored = cacheOk,
                                !.outcome = outcome, !.toast = Toast(outcome)]
          ELSE /\ joining' = [joining EXCEPT !.retries = left, !.polls = @ + 1]
               /\ UNCHANGED <<justJoinedRef, isMember, dao_members>>
  /\ UNCHANGED <<wallet, signer, provider, numProposal, idToProposal, balanceOf,
                 allowance, txs>>
  /\ UNCHANGED <<call, trace, callResult, nCalls>>
  /\ UNCHANGED <<addressToUser, check, walletAddress, accountsChanged>>
  /\ UNCHANGED <<handler, investments, reader, suspended, callers>>
  /\ UNCHANGED mirrorVars

(***************************************************************************)
(* handleAccountsChanged of the DAO page                                   *)
(***************************************************************************)
\* the wallet reports its accounts ("" is the empty list, after the user
\* disconnected) and the listener of the DAO page is called: without an
\* account the page state is reset, else the handler awaits getCurrentAddress
handleAccountsChanged(account) ==
  /\ wallet.installed
  /\ accountsChanged.pc \in {"idle", "done"}
  /\ IF account = ""
       THEN /\ wallet.authorized
            /\ wallet' = [wallet EXCEPT !.authorized = FALSE]
            /\ walletAddress' = ""
            /\ isMember' = FALSE
            /\ justJoinedRef' = FALSE
            /\ accountsChanged' = [IdleChanged EXCEPT !.pc = "done"]
       ELSE /\ wallet.authorized
            /\ wallet.account # account
            /\ wallet' = [wallet EXCEPT !.account = account]
            /\ accountsChanged' = [IdleChanged EXCEPT !.pc = "address"]
            /\ UNCHANGED <<walletAddress, isMember, justJoinedRef>>
  /\ UNCHANGED <<signer, provider, numProposal, idToProposal, balanceOf,
                 allowance, txs, call, trace, callResult, nCalls, joining, handler, investments, reader, suspended, callers>>
  /\ UNCHANGED <<addressToUser, dao_members, check>>
  /\ UNCHANGED mirrorVars

\* getCurrentAddress has answered: the address is shown; after a join the
\* membership check is skipped and the flag is reset
handleAccountsChangedAddress(answered) ==
  /\ accountsChanged.pc = "address"
  /\ LET address == getCurrentAddress(answered)
     IN /\ provider' = ProviderAfterGetCurrentAddress(answered)
        /\ IF address = ""
             THEN /\ accountsChanged' = [accountsChanged EXCEPT !.pc = "done"]
                  /\ UNCHANGED <<walletAddress, justJoinedRef>>
             ELSE /\ walletAddress' = address
                  /\ IF justJoinedRef
                       THEN /\ justJoinedRef' = FALSE
                            /\ accountsChanged' = [pc |-> "done", address |-> address]
                       ELSE /\ accountsChanged' = [pc |-> "cache", address |-> address]
                            /\ UNCHANGED justJoinedRef
  /\ UNCHANGED <<wallet, signer, numProposal, idToProposal, balanceOf,
                 allowance, txs, call, trace, callResult, nCalls, joining, handler, investments, reader, suspended, callers>>
  /\ UNCHANGED <<addressToUser, dao_members, isMember, check>>
  /\ UNCHANGED mirrorVars

\* the cache has answered: a cached membership is shown optimistically
handleAccountsChangedCache(cacheOk) ==
  /\ accountsChanged.pc = "cache"
  /\ isMember' = IF getDaoMembership(accountsChanged.address, cacheOk)
                   THEN TRUE ELSE isMember
  /\ accountsChanged' = [accountsChanged EXCEPT !.pc = "contract"]
  /\ UNCHANGED <<addressToUser, dao_members, justJoinedRef, check, walletAddress>>
  /\ UNCHANGED mirrorVars
  /\ UNCHANGED writeVars

\* the contract read has answered: its result is shown and cached; were it
\* to throw, the cached value would be shown
handleAccountsChangedContract(reply, cacheOk) ==
  /\ accountsChanged.pc = "contract"
  /\ LET r == isDaoMember(AddressToUserCall(accountsChanged.address, reply))
     IN IF ~r.threw
          THEN /\ isMember' = r.value
               /\ dao_members' = setDaoMembership(dao_members, accountsChanged.address,
                                                  r.value, cacheOk)
          ELSE /\ isMember' = getDaoMembership(accountsChanged.address, cacheOk)
               /\ UNCHANGED dao_members
  /\ accountsChanged' = [accountsChanged EXCEPT !.pc = "done"]
  /\ UNCHANGED <<addressToUser, justJoinedRef, check, walletAddress>>
  /\ UNCHANGED mirrorVars
  /\ UNCHANGED writeVars

\* the user has connected the site in the wallet on an earlier visit
AuthorizeSite ==
  /\ wallet.installed
  /\ ~wallet.authorized
  /\ check.pc = "idle"
  /\ wallet' = [wallet EXCEPT !.authorized = TRUE]
  /\ UNCHANGED <<signer, provider, numProposal, idToProposal, balanceOf,
                 allowance, txs, call, trace, callResult, nCalls, joining, handler, investments, reader, suspended, callers>>
  /\ UNCHANGED mirrorVars
  /\ UNCHANGED memberVars

\* the mount effect of the DAO page, run once: the wallet reports an account
\* on Etherlink, initializeProvider drops the signer, and getCurrentAddress
\* answers with the account
checkWalletAndMembership(cacheOk) ==
  /\ check.pc = "idle"
  /\ wallet.installed
  /\ wallet.authorized
  /\ wallet.onEtherlink
  /\ provider' = "browser"
  /\ signer' = ""
  /\ checkWalletAndMembershipStart(wallet.account, cacheOk)
  /\ UNCHANGED <<wallet, numProposal, idToProposal, balanceOf,
                 allowance, txs, call, trace, callResult, nCalls, joining, handler, investments, reader, suspended, callers>>

(***************************************************************************)
(* The handlers of the proposal page and of the purchase form              *)
(***************************************************************************)
IdleHandler == [name |-> "none", pc |-> "idle", proposalId |-> 0, vote |-> 0,
                amount |-> 0, address |-> "", tx |-> NoTx, outcome |-> "none",
                thrown |-> FALSE, mirror |-> "none", userHasVoted |-> FALSE]

\* the write action each handler calls
HandlerFn(name) ==
  CASE name = "handleVote" -> "voteProposal"
    [] name = "handleExecuteProposal" -> "executeProposal"
    [] OTHER -> "buyLot"

\* (mutant) a handler that fails when its mirror write fails
AfterMirrorWriteStrict(ok) == IF ok THEN "success" ELSE "error"

\* the handlers only log or warn when the mirror write returns false
AfterMirrorWrite(ok) == "success"

\* storeInvestment: one row per purchase; ok = FALSE is the store answering
\* with an error or the client throwing
storeInvestment(table, investorAddress, proposalId, lots, transactionHash, ok) ==
  IF ok
    THEN table \cup {[investor_address |-> toLowerCase(investorAddress),
                      proposal_id |-> proposalId, lots |-> lots,
                      transaction_hash |-> transactionHash, status |-> "active"]}
    ELSE table

\* the catch block of a handler: handleVote rethrows, the other two only
\* show the error
HandlerCatch(h) ==
  [h EXCEPT !.pc = "done", !.outcome = "error", !.thrown = (h.name = "handleVote")]

\* a handler is entered (vote and execute need the proposal loaded from the
\* mirror): getCurrentAddress, and without an address connectWithMetamask
\* and getCurrentAddress again
handlerStart(name, p, v, amount, answered, approved) ==
  /\ handler.pc \in {"idle", "done"}
  /\ joining.pc \in {"idle", "done"}
  /\ call.fn = "none"
  /\ nCalls < MaxCalls
  /\ name # "onSubmit" => ReadById(p) # <<>>
  /\ LET first == getCurrentAddress(answered)
         connected == first = "" /\ wallet.installed /\ approved
         address == IF first # "" THEN first
                    ELSE IF connected THEN wallet.account ELSE ""
         h == [IdleHandler EXCEPT !.name = name, !.proposalId = p, !.vote = v,
                                  !.amount = amount, !.address = address]
     IN /\ wallet' = [wallet EXCEPT !.authorized = @ \/ connected]
        /\ signer' = IF connected THEN wallet.account ELSE signer
        /\ provider' = IF first = "" /\ ~wallet.installed THEN "rpc"
                       ELSE IF connected THEN "browser"
                       ELSE ProviderAfterGetCurrentAddress(answered)
        /\ handler' = IF address = "" THEN HandlerCatch(h)
                      ELSE [h EXCEPT !.pc = "network"]
  /\ UNCHANGED <<numProposal, idToProposal, balanceOf, allowance, txs, call, trace,
                 callResult, nCalls, joining, investments, reader, suspended, callers>>
  /\ UNCHANGED mirrorVars
  /\ UNCHANGED memberVars

\* checkEtherlinkNetwork, and on another network (or a failed eth_chainId)
\* switchToEtherlinkNetwork, which throws when the wallet refuses
handlerNetwork(onChain, switched) ==
  /\ handler.pc = "network"
  /\ LET onEtherlink == wallet.installed /\ onChain /\ wallet.onEtherlink
         switches == ~onEtherlink /\ wallet.installed /\ switched
     IN /\ wallet' = IF switches THEN [wallet EXCEPT !.onEtherlink = TRUE] ELSE wallet
        /\ handler' = IF onEtherlink \/ switches
                        THEN [handler EXCEPT
                                !.pc = IF handler.name = "onSubmit" THEN "balance"
                                       ELSE "member"]
                        ELSE HandlerCatch(handler)
  /\ UNCHANGED <<signer, provider, numProposal, idToProposal, balanceOf, allowance,
                 txs, call, trace, callResult, nCalls, joining, investments, reader, suspended, callers>>
  /\ UNCHANGED mirrorVars
  /\ UNCHANGED memberVars

\* handleVote and handleExecuteProposal: the membership read, then (execute)
\* the executed flag of the loaded proposal, then the write action is called
handlerMember(reply) ==
  /\ handler.pc = "member"
  /\ IF ~isDaoMember(AddressToUserCall(handler.address, reply)).value
       THEN /\ handler' = HandlerCatch(handler)
            /\ UNCHANGED <<call, trace, callResult, nCalls>>
       ELSE IF handler.name = "handleExecuteProposal"
                 /\ ReadById(handler.proposalId)[1].executed
         THEN /\ handler' = [handler EXCEPT !.pc = "done", !.outcome = "returned"]
              /\ UNCHANGED <<call, trace, callResult, nCalls>>
         ELSE /\ handler' = [handler EXCEPT !.pc = "call"]
              /\ Begin(HandlerFn(handler.name), handler.proposalId, handler.vote, 0)
  /\ UNCHANGED <<wallet, signer, provider, numProposal, idToProposal, balanceOf,
                 allowance, txs, joining, investments, reader, suspended, callers>>
  /\ UNCHANGED mirrorVars
  /\ UNCHANGED memberVars

\* onSubmit: checkUSDCBalance(totalValue), then buyLot(totalValue) is called
handlerBalance(answered) ==
  /\ handler.pc = "balance"
  /\ IF ~answered \/ ~(balanceOf[toLowerCase(handler.address)] >= handler.amount)
       THEN /\ handler' = HandlerCatch(handler)
            /\ UNCHANGED <<call, trace, callResult, nCalls>>
       ELSE /\ handler' = [handler EXCEPT !.pc = "call"]
            /\ Begin("buyLot", 0, 0, handler.amount)
  /\ UNCHANGED <<wallet, signer, provider, numProposal, idToProposal, balanceOf,
                 allowance, txs, joining, investments, reader, suspended, callers>>
  /\ UNCHANGED mirrorVars
  /\ UNCHANGED memberVars

\* the write action has returned the transaction or thrown; handleVote
\* rethrows what it catches, the other two only show it
handlerResult ==
  /\ handler.pc = "call"
  /\ call.fn = "none"
  /\ callResult.fn = HandlerFn(handler.name)
  /\ handler' = IF callResult.outcome = "ok"
                  THEN [handler EXCEPT !.pc = "wait", !.tx = callResult.tx]
                  ELSE HandlerCatch(handler)
  /\ UNCHANGED <<wallet, signer, provider, numProposal, idToProposal, balanceOf,
                 allowance, txs, call, trace, callResult, nCalls, joining,
                 investments, reader, suspended, callers>>
  /\ UNCHANGED mirrorVars
  /\ UNCHANGED memberVars

\* await tx.wait(), then what each handler does with a confirmed transaction:
\* handleVote sets userHasVoted, handleExecuteProposal calls
\* updateProposalExecution(proposalId, true), onSubmit calls storeInvestment
handlerWait(ok) ==
  /\ handler.pc = "wait"
  /\ txs[handler.tx].status # "pending"
  /\ IF ~WaitResolves(txs[handler.tx])
       THEN /\ handler' = HandlerCatch(handler)
            /\ UNCHANGED <<dao_proposals, clockMs, mirrorCall, mirrorResult,
                           investments, reader, suspended, callers>>
       ELSE CASE handler.name = "handleVote" ->
                   /\ handler' = [handler EXCEPT !.pc = "done", !.outcome = "success",
                                                 !.userHasVoted = TRUE]
                   /\ UNCHANGED <<dao_proposals, clockMs, mirrorCall, mirrorResult,
                                  investments, reader, suspended, callers>>
              [] handler.name = "handleExecuteProposal" ->
                   /\ updateProposalExecution(handler.proposalId, TRUE, ok)
                   /\ handler' = [handler EXCEPT
                                    !.pc = IF ok THEN "refresh" ELSE "done",
                                    !.outcome = AfterMirrorWrite(ok),
                                    !.mirror = IF ok THEN "written" ELSE "failed"]
                   /\ UNCHANGED investments
              [] OTHER ->
                   /\ investments' = storeInvestment(investments, handler.address,
                                                     handler.proposalId,
                                                     handler.amount,
                                                     handler.tx, ok)
                   /\ handler' = [handler EXCEPT
                                    !.pc = "done",
                                    !.outcome = AfterMirrorWrite(ok),
                                    !.mirror = IF ok THEN "written" ELSE "failed"]
                   /\ UNCHANGED <<dao_proposals, clockMs, mirrorCall, mirrorResult>>
  /\ UNCHANGED <<wallet, signer, provider, numProposal, idToProposal, balanceOf,
                 allowance, txs, call, trace, callResult, nCalls, joining, reader, suspended, callers>>
  /\ UNCHANGED memberVars

\* handleExecuteProposal after a mirror update that succeeded: the proposal
\* is read again from the mirror
handlerRefresh(ok) ==
  /\ handler.pc = "refresh"
  /\ getProposalFromSupabase(handler.proposalId, ok)
  /\ handler' = [handler EXCEPT !.pc = "done"]
  /\ UNCHANGED investments
  /\ UNCHANGED <<wallet, signer, provider, numProposal, idToProposal, balanceOf,
                 allowance, txs, call, trace, callResult, nCalls, joining, reader, suspended, callers>>
  /\ UNCHANGED memberVars

(***************************************************************************)
(* The proposal reader of daoUtils.ts                                      *)
(***************************************************************************)
IdleReader == [fn |-> "none", proposalId |-> 0, structRead |-> FALSE,
               eventsAnswered |-> FALSE, blockRead |-> "none", result |-> <<>>,
               source |-> "none", threw |-> FALSE, consulted |-> <<>>]

\* what the create form of the model sends with every createProposal
ChainTerms == [lotSize |-> 1000, sharePrice |-> 10, maxPerInvestor |-> 5,
               proposalSummary |-> "Test"]

\* getProposal: the Proposal object built from a struct that was read
StructView(proposalId, p) ==
  [ id |-> ToString(proposalId),
    proposalId |-> proposalId,
    lotSize |-> ChainTerms.lotSize,
    sharePrice |-> ChainTerms.sharePrice,
    maxPerInvestor |-> ChainTerms.maxPerInvestor,
    proposalSummary |-> ChainTerms.proposalSummary,
    deadline |-> p.deadline,
    user |-> p.user,
    yayVotes |-> p.yayVotes,
    nayVotes |-> p.nayVotes,
    executed |-> p.executed,
    status |-> IF p.deadline <= NowSec
                 THEN (IF p.executed THEN "closed" ELSE "marketplace")
                 ELSE "voting",
    votingEndsAt |-> p.deadline * 1000 ]

\* the proposalCreated(proposalId, user) events of the chain, each with the
\* timestamp of its block
proposalCreatedEvents ==
  {[proposalId |-> i, user |-> idToProposal[i].user,
    timestamp |-> idToProposal[i].deadline - Duration] : i \in 1..numProposal}

\* (mutant) a reconstruction that takes the block's timestamp as the deadline
EventViewNoWindow(proposalId, user, createdAt) ==
  [ id |-> ToString(proposalId), proposalId |-> proposalId, lotSize |-> 0,
    sharePrice |-> 0, maxPerInvestor |-> 0,
    proposalSummary |-> "Proposal " \o ToString(proposalId),
    deadline |-> createdAt, user |-> user, yayVotes |-> 0, nayVotes |-> 0,
    executed |-> FALSE,
    status |-> IF createdAt <= NowSec THEN "marketplace" ELSE "voting",
    votingEndsAt |-> createdAt * 1000 ]

\* getProposalFromEvents: the Proposal object rebuilt from an event
EventView(proposalId, user, createdAt) ==
  [ id |-> ToString(proposalId),
    proposalId |-> proposalId,
    lotSize |-> 0,
    sharePrice |-> 0,
    maxPerInvestor |-> 0,
    proposalSummary |-> "Proposal " \o ToString(proposalId),
    deadline |-> createdAt + Duration,
    user |-> user,
    yayVotes |-> 0,
    nayVotes |-> 0,
    executed |-> FALSE,
    status |-> IF createdAt + Duration <= NowSec THEN "marketplace" ELSE "voting",
    votingEndsAt |-> (createdAt + Duration) * 1000 ]

\* how provider.getBlock can answer: the block, null, or an error
BlockReads == {"block", "null", "throw"}

\* (mutant) a getProposalFromEvents without its try/catch
getProposalFromEventsRethrow(proposalId, eventsAnswered, blockRead) ==
  LET found == {e \in proposalCreatedEvents : e.proposalId = proposalId}
      e == CHOOSE x \in found : TRUE
  IN IF ~eventsAnswered THEN [result |-> <<>>, threw |-> TRUE]
     ELSE IF found = {} THEN [result |-> <<>>, threw |-> FALSE]
     ELSE IF blockRead = "throw" THEN [result |-> <<>>, threw |-> TRUE]
     ELSE [result |-> <<EventView(proposalId, e.user,
                                  IF blockRead = "block" THEN e.timestamp
                                  ELSE NowSec)>>,
           threw |-> FALSE]

\* getProposalFromEvents: the event of the ID among the proposalCreated
\* events, the block of that event for the creation time (now when the block
\* is null); null (<<>>) without such an event and on any error
getProposalFromEvents(proposalId, eventsAnswered, blockRead) ==
  LET found == {e \in proposalCreatedEvents : e.proposalId = proposalId}
      e == CHOOSE x \in found : TRUE
  IN IF ~eventsAnswered \/ found = {} \/ blockRead = "throw"
       THEN [result |-> <<>>, threw |-> FALSE]
       ELSE [result |-> <<EventView(proposalId, e.user,
                                    IF blockRead = "block" THEN e.timestamp
                                    ELSE NowSec)>>,
             threw |-> FALSE]

\* getProposal: the struct read (null for a struct with deadline 0), and when
\* it throws, getProposalFromEvents
getProposal(proposalId, structRead, eventsAnswered, blockRead) ==
  IF structRead
    THEN [result |-> IF idToProposal[proposalId].deadline = 0 THEN <<>>
                     ELSE <<StructView(proposalId, idToProposal[proposalId])>>,
          source |-> "struct", threw |-> FALSE, consulted |-> <<"struct">>]
    ELSE LET r == getProposalFromEvents(proposalId, eventsAnswered, blockRead)
         IN [result |-> r.result, source |-> "events", threw |-> r.threw,
             consulted |-> <<"struct", "events">>]

\* getReadOnlyContract: a JsonRpcProvider is made when there is no provider
getReadOnlyContract == IF provider = "none" THEN "rpc" ELSE provider

\* a caller awaits getProposal(proposalId)
readProposal(proposalId, structRead, eventsAnswered, blockRead) ==
  /\ reader.fn = "none"
  /\ provider' = getReadOnlyContract
  /\ LET r == getProposal(proposalId, structRead, eventsAnswered, blockRead)
     IN reader' = [fn |-> "getProposal", proposalId |-> proposalId,
                   structRead |-> structRead, eventsAnswered |-> eventsAnswered,
                   blockRead |-> blockRead, result |-> r.result,
                   source |-> r.source, threw |-> r.threw,
                   consulted |-> r.consulted]
  /\ UNCHANGED <<wallet, signer, numProposal, idToProposal, balanceOf, allowance,
                 txs, call, trace, callResult, nCalls, joining, handler,
                 investments, suspended, callers>>
  /\ UNCHANGED mirrorVars
  /\ UNCHANGED memberVars

\* the inputs of one getProposal: the struct read answers; or it throws and
\* the event query fails; or it throws, the events come and the block read
\* answers in one of its ways
ReadInputs ==
  {<<TRUE, TRUE, "block">>, <<FALSE, FALSE, "block">>}
    \cup {<<FALSE, TRUE, b>> : b \in BlockReads}

\* the loop of getAllProposals: the proposals of the IDs from..n that
\* getProposal resolves, in the order of the IDs
RECURSIVE Collect(_, _, _)
Collect(from, n, reads) ==
  IF from > n THEN <<>>
  ELSE LET r == getProposal(from, reads[from][1], reads[from][2], reads[from][3])
       IN (IF r.threw THEN <<>> ELSE r.result) \o Collect(from + 1, n, reads)

\* (mutant) the proposals in the order they were pushed
SortByIdNot(list) == list

\* proposals.sort((a, b) => b.proposalId - a.proposalId)
RECURSIVE SortById(_)
SortById(list) ==
  IF list = <<>> THEN <<>>
  ELSE LET top == CHOOSE i \in 1..Len(list) :
                    \A j \in 1..Len(list) :
                      /\ list[j].proposalId <= list[i].proposalId
                      /\ (list[j].proposalId = list[i].proposalId => i <= j)
           rest == [k \in 1..(Len(list) - 1) |-> IF k < top THEN list[k]
                                                  ELSE list[k + 1]]
       IN <<list[top]>> \o SortById(rest)

\* a caller awaits getAllProposals(): getProposalsFromSupabase, and when it
\* returns nothing, numProposal() and getProposal for every ID up to it
getAllProposals(mirrorOk, numAnswered, reads) ==
  /\ reader.fn = "none"
  /\ getProposalsFromSupabase(mirrorOk)
  /\ LET r == [IdleReader EXCEPT !.fn = "getAllProposals"]
     IN IF Len(mirrorResult') > 0
          THEN /\ reader' = [r EXCEPT !.result = mirrorResult', !.source = "mirror",
                                      !.consulted = <<"mirror">>]
               /\ UNCHANGED provider
          ELSE /\ provider' = getReadOnlyContract
               /\ reader' =
                    IF ~numAnswered
                      THEN [r EXCEPT !.consulted = <<"mirror", "numProposal">>]
                      ELSE [r EXCEPT
                              !.result = SortById(Collect(1, numProposal, reads)),
                              !.source = "chain",
                              !.consulted = <<"mirror", "numProposal", "getProposal">>]
  /\ UNCHANGED <<wallet, signer, numProposal, idToProposal, balanceOf, allowance,
                 txs, call, trace, callResult, nCalls, joining, handler,
                 investments, suspended, callers>>
  /\ UNCHANGED memberVars

\* the caller has taken the result
readerDone ==
  /\ reader.fn # "none"
  /\ reader' = IdleReader
  /\ UNCHANGED <<wallet, signer, provider, numProposal, idToProposal, balanceOf,
                 allowance, txs, call, trace, callResult, nCalls, joining, handler,
                 investments, suspended, callers>>
  /\ UNCHANGED mirrorVars
  /\ UNCHANGED memberVars

\* another member's createProposal is mined (sent from another browser)
ChainCreate(sender) ==
  /\ onlyMember(sender)
  /\ numProposal < MaxChainId
  /\ numProposal' = numProposal + 1
  /\ idToProposal' = SolCreateProposal(idToProposal, numProposal, sender)
  /\ UNCHANGED <<wallet, signer, provider, balanceOf, allowance, txs, call, trace,
                 callResult, nCalls, joining, handler, investments, reader, suspended, callers>>
  /\ UNCHANGED mirrorVars
  /\ UNCHANGED memberVars

(***************************************************************************)
(* The actions of the specifications                                       *)
(***************************************************************************)
\* the write actions the pages call directly, with their arguments
CallArgs ==
  {<<"createProposal", 0, 0, 0>>}
    \cup {<<"voteProposal", p, v, 0>> : p \in 0..(MaxId + 1), v \in {0, 1}}
    \cup {<<"executeProposal", p, 0, 0>> : p \in 0..(MaxId + 1)}
    \cup {<<fn, 0, 0, a>> : fn \in {"mintUSDC", "approveUSDC", "buyLot"},
                            a \in Amounts}

\* a page calls the write action a[1] with the arguments a[2..4]
StartCallOf(a) ==
  /\ joining.pc \in {"idle", "done"}
  /\ handler.pc \in {"idle", "done"}
  /\ Begin(a[1], a[2], a[3], a[4])
  /\ UNCHANGED <<wallet, signer, provider, numProposal, idToProposal, balanceOf,
                 allowance, txs, joining, handler, investments, reader, suspended, callers>>
  /\ UNCHANGED mirrorVars
  /\ UNCHANGED memberVars

StartCall == \E a \in CallArgs : StartCallOf(a)

\* every write action of daoUtils.ts, called once with some arguments
SessionArgs ==
  {<<fn, 0, 0, 0>> : fn \in {"joinDao", "createProposal", "withdraw"}}
    \cup {<<fn, 1, 0, 0>> : fn \in {"voteProposal", "executeProposal"}}
    \cup {<<fn, 0, 0, 1>> : fn \in {"mintUSDC", "approveUSDC", "buyLot"}}

StartSession == \E a \in SessionArgs : StartCallOf(a)

\* createProposal (the create form) and mintUSDC: what the handlers of the
\* proposal page and of the purchase form need done before them
FormArgs == {a \in CallArgs : a[1] \in {"createProposal", "mintUSDC"}}

SubmitForm == \E a \in FormArgs : StartCallOf(a)

\* the create form is submitted
CreateArgs == {a \in CallArgs : a[1] = "createProposal"}

StartCreate == \E a \in CreateArgs : StartCallOf(a)

Connect == \E approved \in BOOLEAN : connectWithMetamask(approved)

CheckNetwork == \E answered \in BOOLEAN : checkEtherlinkNetwork(answered)

VerifyProposalId == \E answered \in BOOLEAN : verifyProposalId(answered)

VerifyMembership == \E reply \in RpcReplies : verifyMembership(reply)

EstimateGas ==
  \E answered \in BOOLEAN :
    \E gas \in (IF answered THEN Estimates ELSE {0}) : estimateGas(answered, gas)

GetFeeData ==
  \E answered \in BOOLEAN :
    \E gasPrice \in (IF answered THEN GasPrices ELSE {0}) :
      getFeeData(answered, gasPrice)

CheckAllowance == \E answered \in BOOLEAN : checkAllowance(answered)

CheckBalance == \E answered \in BOOLEAN : checkUSDCBalance(answered)

SendTransaction == \E accepted \in BOOLEAN : sendTransaction(accepted)

WaitApproval == waitApproval

WaitReceipt == \E parsed \in BOOLEAN, answered \in BOOLEAN : waitReceipt(parsed, answered)

StoreCreated == \E ok \in BOOLEAN : storeCreated(ok)

MineTx == \E i \in 1..Len(txs) : Mine(i)

SwitchWallet == \E onEtherlink \in BOOLEAN : WalletChange(onEtherlink)

JoinStart == \E answered \in BOOLEAN : handleJoinDaoStart(answered)

JoinPrecheck == \E reply \in RpcReplies, ok \in BOOLEAN : handleJoinDaoPrecheck(reply, ok)

JoinResult == \E ok \in BOOLEAN : handleJoinDaoResult(ok)

JoinWait == \E answered \in BOOLEAN : handleJoinDaoWait(answered)

JoinPoll == \E reply \in RpcReplies, ok \in BOOLEAN : handleJoinDaoPoll(reply, ok)

\* the wallet changes its accounts once while the page is open
AccountsChanged ==
  /\ accountsChanged.pc = "idle"
  /\ \E a \in Addresses \cup {""} : handleAccountsChanged(a)

AccountsChangedAddress == \E answered \in BOOLEAN : handleAccountsChangedAddress(answered)

AccountsChangedCache == \E ok \in BOOLEAN : handleAccountsChangedCache(ok)

AccountsChangedContract == \E reply \in RpcReplies, ok \in BOOLEAN : handleAccountsChangedContract(reply, ok)

MountPage == \E ok \in BOOLEAN : checkWalletAndMembership(ok)

\* an address has joined while the page is between two of its actions
JoinedBefore ==
  /\ call.fn = "none"
  /\ joining.pc \in {"idle", "done"}
  /\ MineJoin

\* the Join button is there once the mount effect has ended its loading state
JoinClicked ==
  /\ check.pc = "done"
  /\ nCalls = 0
  /\ JoinStart

MineExecute == \E a \in Addresses, p \in ProposalIds : ChainExecute(a, p)

MineCreate == \E a \in Creators : ChainCreate(a)

MineVote ==
  \E a \in Addresses, p \in DOMAIN idToProposal, v \in {0, 1} : ChainVote(a, p, v)

MineMint == \E a \in Amounts : ChainMint(wallet.account, a)

MineApprove == \E a \in Amounts \cup {0} : ChainApprove(wallet.account, a)

\* the votes and executions of the proposal page, on the proposals there are
VoteArgs == {a \in CallArgs : a[1] \in {"voteProposal", "executeProposal"} /\ a[2] >= 1}

StartVote == \E a \in VoteArgs : StartCallOf(a)

Yield == yield

\* the executions of the proposal page, on the proposals there are
ExecuteArgs == {a \in VoteArgs : a[1] = "executeProposal"}

StartExecute == \E a \in ExecuteArgs : StartCallOf(a)

InitProvider == \E accountsAnswered \in BOOLEAN : initializeProvider(accountsAnswered)

CurrentAddress == \E answered \in BOOLEAN, nested \in BOOLEAN : currentAddress(answered, nested)

\* the replies to the add-chain request are drawn only after a 4902
SwitchNetwork ==
  \E reply \in SwitchReplies :
    \E added \in (IF reply = "4902" THEN BOOLEAN ELSE {FALSE}) :
      \E activated \in (IF added THEN BOOLEAN ELSE {FALSE}) :
        switchToEtherlinkNetwork(reply, added, activated)

SwitchAccount == \E a \in Addresses : AccountChange(a)

MintArgs == {a \in CallArgs : a[1] = "mintUSDC"}

StartMint == \E a \in MintArgs : StartCallOf(a)

\* the token actions of the purchase form
TokenArgs == {a \in CallArgs : a[1] \in TokenFns}

StartToken == \E a \in TokenArgs : StartCallOf(a)

ReadProposal ==
  \E id \in 1..MaxChainId, in \in ReadInputs : readProposal(id, in[1], in[2], in[3])

\* the reads of the loop are drawn only when the loop is reached
ReadAllProposals ==
  \E mirrorOk \in BOOLEAN, numAnswered \in BOOLEAN :
    \E reads \in (IF numAnswered /\ (~mirrorOk \/ dao_proposals = {})
                    THEN [1..numProposal -> ReadInputs]
                    ELSE {[i \in 1..numProposal |-> <<TRUE, TRUE, "block">>]}) :
      getAllProposals(mirrorOk, numAnswered, reads)

ReaderDone == readerDone

\* the mirror write of a createProposal that another session had confirmed
StoreMined ==
  \E id \in ProposalIds, a \in Creators, h \in TxHashes :
    /\ id <= numProposal
    /\ storeProposalInSupabase(id, ChainTerms.lotSize, ChainTerms.sharePrice,
                               ChainTerms.maxPerInvestor,
                               ChainTerms.proposalSummary, a, NowSec + Duration,
                               h, TRUE)
    /\ UNCHANGED memberVars
    /\ UNCHANGED writeVars

HandlerNames == {"handleVote", "handleExecuteProposal", "onSubmit"}

HandlerStart ==
  \E name \in HandlerNames, p \in ProposalIds :
    \E v \in (IF name = "handleVote" THEN {0, 1} ELSE {0}) :
      \E amount \in (IF name = "onSubmit" THEN Amounts ELSE {0}) :
        \E answered \in BOOLEAN, approved \in BOOLEAN :
          handlerStart(name, p, v, amount, answered, approved)

\* the Execute button of the proposal page is clicked
ExecuteClicked ==
  \E p \in ProposalIds, answered \in BOOLEAN, approved \in BOOLEAN :
    handlerStart("handleExecuteProposal", p, 0, 0, answered, approved)

HandlerNetwork == \E onChain \in BOOLEAN, switched \in BOOLEAN : handlerNetwork(onChain, switched)

HandlerMember == \E reply \in RpcReplies : handlerMember(reply)

HandlerBalance == \E answered \in BOOLEAN : handlerBalance(answered)

HandlerResult == handlerResult

HandlerWait == \E ok \in BOOLEAN : handlerWait(ok)

HandlerRefresh == \E ok \in BOOLEAN : handlerRefresh(ok)

Init ==
  /\ dao_proposals = {}
  /\ clockMs = 0
  /\ mirrorCall = NoCall
  /\ mirrorResult = <<>>
  /\ addressToUser = [a \in ChainAddresses |-> FALSE]
  /\ dao_members = {}
  /\ isMember = FALSE
  /\ justJoinedRef = FALSE
  /\ check = IdleCheck
  /\ walletAddress = ""
  /\ accountsChanged = IdleChanged
  /\ wallet = [installed |-> FALSE, authorized |-> FALSE, account |-> "0xAb",
               onEtherlink |-> TRUE]
  /\ signer = ""
  /\ provider = "none"
  /\ numProposal = 0
  /\ idToProposal = [i \in 0..(MaxId + 1) |-> EmptyProposal]
  /\ balanceOf = [a \in ChainAddresses |-> 0]
  /\ allowance = [a \in ChainAddresses |-> 0]
  /\ txs = <<>>
  /\ call = IdleCall
  /\ trace = <<>>
  /\ callResult = NoResult
  /\ nCalls = 0
  /\ joining = IdleJoin
  /\ handler = IdleHandler
  /\ investments = {}
  /\ reader = IdleReader
  /\ suspended = NoneSuspended
  /\ callers = [c \in Callers |-> IdleCaller]

NextMirror ==
  \/ StoreProposal
  \/ UpdateVotes
  \/ UpdateExecution
  \/ GetProposal
  \/ GetProposals
  \/ Tick

SpecMirror == Init /\ [][NextMirror]_vars

\* the contract alone: joins, proposals and votes of any session, and time
NextVoting ==
  \/ MineJoin
  \/ MineCreate
  \/ MineVote
  \/ Tick
  \/ DurationPasses

SpecVoting == Init /\ [][NextVoting]_vars

\* the mirror with the records of several proposals and its two updates
NextFrame ==
  \/ StoreOfMany
  \/ UpdateVotesOfMany
  \/ UpdateExecutionOfMany

SpecFrame == Init /\ [][NextFrame]_vars

\* a browser without an injected wallet: the write actions, the proposal
\* reader and the chain as other sessions change it
NextNoWallet ==
  \/ StartSession
  \/ Connect
  \/ ReadProposal
  \/ ReaderDone
  \/ MineJoin
  \/ MineCreate

SpecNoWallet == Init /\ [][NextNoWallet]_vars

\* two sessions that read the vote counts of the mirror and write new totals
NextCallers ==
  \/ StoreProposal
  \/ UpdateExecution
  \/ CallerRead
  \/ CallerWrite

SpecCallers == Init /\ [][NextCallers]_vars

NextMember ==
  \/ MountCheck
  \/ RetryLoop
  \/ MineJoin

SpecMember == Init /\ [][NextMember]_vars

NextWrite ==
  \/ InstallWallet
  \/ SwitchWallet
  \/ StartCall
  \/ Connect
  \/ CheckNetwork
  \/ VerifyProposalId
  \/ VerifyMembership
  \/ EstimateGas
  \/ GetFeeData
  \/ CheckAllowance
  \/ CheckBalance
  \/ SendTransaction
  \/ WaitApproval
  \/ WaitReceipt
  \/ StoreCreated
  \/ MineTx
  \/ MineJoin
  \/ JoinStart
  \/ JoinPrecheck
  \/ JoinResult
  \/ JoinWait
  \/ JoinPoll

SpecWrite == Init /\ [][NextWrite]_vars

\* the token actions alone: mintUSDC, approveUSDC and buyLot, and the token
\* contract
NextToken ==
  \/ InstallWallet
  \/ StartToken
  \/ Connect
  \/ CheckNetwork
  \/ CheckBalance
  \/ CheckAllowance
  \/ GetFeeData
  \/ EstimateGas
  \/ SendTransaction
  \/ WaitApproval
  \/ MineTx
  \/ MineMint
  \/ MineApprove

SpecToken == Init /\ [][NextToken]_vars

\* votes and executions of one session that overlap at their awaits, over a
\* chain that other sessions fill
NextOverlap ==
  \/ InstallWallet
  \/ MineJoin
  \/ MineCreate
  \/ StartVote
  \/ Yield
  \/ Connect
  \/ VerifyProposalId
  \/ VerifyMembership
  \/ EstimateGas
  \/ GetFeeData
  \/ SendTransaction
  \/ MineTx

SpecOverlap == Init /\ [][NextOverlap]_vars

\* the wallet reads of the pages next to a write action that connects
NextWallet ==
  \/ InstallWallet
  \/ SwitchWallet
  \/ InitProvider
  \/ CurrentAddress
  \/ SwitchNetwork
  \/ SwitchAccount
  \/ StartMint
  \/ Connect
  \/ CheckNetwork
  \/ GetFeeData
  \/ EstimateGas
  \/ SendTransaction
  \/ MineTx

SpecWallet == Init /\ [][NextWallet]_vars

\* executeProposal alone, over a chain that other sessions fill
NextExecute ==
  \/ InstallWallet
  \/ MineJoin
  \/ MineCreate
  \/ StartExecute
  \/ Connect
  \/ VerifyProposalId
  \/ EstimateGas
  \/ GetFeeData
  \/ SendTransaction
  \/ MineTx

SpecExecute == Init /\ [][NextExecute]_vars

\* createProposal alone, over a chain and a mirror that other sessions fill
NextCreate ==
  \/ InstallWallet
  \/ MineJoin
  \/ MineCreate
  \/ StoreMined
  \/ StartCreate
  \/ Connect
  \/ EstimateGas
  \/ GetFeeData
  \/ SendTransaction
  \/ MineTx
  \/ WaitReceipt
  \/ StoreCreated

SpecCreate == Init /\ [][NextCreate]_vars

\* the join flow alone: handleJoinDao, the joinDao it calls and the chain
NextJoin ==
  \/ InstallWallet
  \/ JoinStart
  \/ JoinPrecheck
  \/ Connect
  \/ VerifyMembership
  \/ EstimateGas
  \/ GetFeeData
  \/ SendTransaction
  \/ MineTx
  \/ MineJoin
  \/ JoinResult
  \/ JoinWait
  \/ JoinPoll

SpecJoin == Init /\ [][NextJoin]_vars

\* the join handler and joinDao, with joins of other sessions mined only
\* between two calls, so that no membership changes under a pre-check
NextRejoin ==
  \/ InstallWallet
  \/ JoinedBefore
  \/ JoinStart
  \/ JoinPrecheck
  \/ Connect
  \/ VerifyMembership
  \/ EstimateGas
  \/ GetFeeData
  \/ SendTransaction
  \/ MineTx
  \/ JoinResult
  \/ JoinWait
  \/ JoinPoll

SpecRejoin == Init /\ [][NextRejoin]_vars

\* the DAO page: its mount effect, its accountsChanged listener and its join
\* handler, with the wallet and the chain
NextShown ==
  \/ InstallWallet
  \/ AuthorizeSite
  \/ MineJoin
  \/ MountPage
  \/ RetryLoop
  \/ AccountsChanged
  \/ AccountsChangedAddress
  \/ AccountsChangedCache
  \/ AccountsChangedContract
  \/ JoinClicked
  \/ JoinPrecheck
  \/ Connect
  \/ VerifyMembership
  \/ EstimateGas
  \/ GetFeeData
  \/ SendTransaction
  \/ MineTx
  \/ JoinResult
  \/ JoinWait
  \/ JoinPoll

SpecShown == Init /\ [][NextShown]_vars

\* the proposal page and the purchase form: their handlers, the write actions
\* they and the create form call, and the chain
NextPage ==
  \/ InstallWallet
  \/ SwitchWallet
  \/ MineJoin
  \/ MineExecute
  \/ SubmitForm
  \/ HandlerStart
  \/ HandlerNetwork
  \/ HandlerMember
  \/ HandlerBalance
  \/ HandlerResult
  \/ HandlerWait
  \/ HandlerRefresh
  \/ Connect
  \/ CheckNetwork
  \/ VerifyProposalId
  \/ VerifyMembership
  \/ EstimateGas
  \/ GetFeeData
  \/ CheckAllowance
  \/ CheckBalance
  \/ SendTransaction
  \/ WaitApproval
  \/ WaitReceipt
  \/ StoreCreated
  \/ MineTx

SpecPage == Init /\ [][NextPage]_vars

\* handleExecuteProposal over a chain and a mirror that other sessions fill
NextAgree ==
  \/ InstallWallet
  \/ MineJoin
  \/ MineCreate
  \/ StoreMined
  \/ ExecuteClicked
  \/ HandlerNetwork
  \/ HandlerMember
  \/ HandlerResult
  \/ HandlerWait
  \/ HandlerRefresh
  \/ Connect
  \/ VerifyProposalId
  \/ EstimateGas
  \/ GetFeeData
  \/ SendTransaction
  \/ MineTx

SpecAgree == Init /\ [][NextAgree]_vars

\* the proposal reader over a mirror and a chain that other sessions fill
NextReader ==
  \/ MineJoin
  \/ MineCreate
  \/ StoreMined
  \/ Tick
  \/ ReadProposal
  \/ ReadAllProposals
  \/ ReaderDone

SpecReader == Init /\ [][NextReader]_vars

\* the contract as other sessions drive it, and the reads of getProposal
NextChain ==
  \/ MineJoin
  \/ MineCreate
  \/ MineExecute
  \/ Tick
  \/ ReadProposal
  \/ ReaderDone

SpecChain == Init /\ [][NextChain]_vars

\* the verification loop is a running async function: its next turn comes
SpecJoinLive == SpecJoin /\ WF_vars(JoinPoll)

(***************************************************************************)
(* Properties of the proposal mirror store                                 *)
(***************************************************************************)
Statuses == {"voting", "closed", "marketplace"}

\* C1: every proposal a read of the mirror returns carries exactly one status:
\* "marketplace" when its record is executed (whatever the deadline), "closed"
\* when it is not executed and the stored deadline is not after the current
\* time, "voting" when it is not executed and the deadline is still ahead; and
\* a successful bulk read reports every stored record.
StatusDerivation ==
  mirrorCall.op \in {"getOne", "getAll"} =>
    /\ \A i \in 1..Len(mirrorResult) :
         \A r \in RowsOf(mirrorResult[i].proposalId) :
           /\ mirrorResult[i].status \in Statuses
           /\ r.executed => mirrorResult[i].status = "marketplace"
           /\ (~r.executed /\ getTime(r.deadline) <= clockMs)
                => mirrorResult[i].status = "closed"
           /\ (~r.executed /\ getTime(r.deadline) > clockMs)
                => mirrorResult[i].status = "voting"
    /\ (mirrorCall.op = "getAll" /\ mirrorCall.ok) =>
         {mirrorResult[i].proposalId : i \in 1..Len(mirrorResult)}
           = {r.proposal_id : r \in dao_proposals}
    /\ (mirrorCall.op = "getOne" /\ mirrorCall.ok
          /\ RowsOf(mirrorCall.proposalId) # {}) => Len(mirrorResult) = 1

\* C1 witness: a read by ID that reports an executed proposal whose deadline is
\* still ahead as "marketplace".
StatusDerivationWitness ==
  /\ mirrorCall.op = "getOne"
  /\ Len(mirrorResult) = 1
  /\ mirrorResult[1].executed
  /\ mirrorResult[1].status = "marketplace"
  /\ mirrorResult[1].deadline > NowSec

\* C6: once the stored executed flag of a proposalId is true, no mirror-store
\* operation makes it false again.
ExecutedMonotonic ==
  [][\A id \in ProposalIds :
       (\E r \in dao_proposals : r.proposal_id = id /\ r.executed)
         => (\E r \in dao_proposals' : r.proposal_id = id /\ r.executed)]_vars

\* C7: the stored yayVotes and nayVotes of a proposalId never decrease from one
\* state to the next.
VotesNeverDecrease ==
  [][\A r \in dao_proposals :
       \A q \in dao_proposals' :
         q.proposal_id = r.proposal_id
           => (q.yay_votes >= r.yay_votes /\ q.nay_votes >= r.nay_votes)]_vars

\* C8: after a successful storeProposalInSupabase the mirror holds exactly one
\* record for that proposalId, and its fields are those of this call (also
\* when a record with another summary was stored under the ID before).
IdempotentUpsert ==
  (mirrorCall.op = "store" /\ mirrorCall.ok) =>
    /\ Cardinality(RowsOf(mirrorCall.proposalId)) = 1
    /\ \A r \in RowsOf(mirrorCall.proposalId) :
         /\ r.proposal_summary = mirrorCall.summary
         /\ getTime(r.deadline) = mirrorCall.deadline * 1000
         /\ r.yay_votes = 0 /\ r.nay_votes = 0 /\ ~r.executed

\* C8 witness: the second store of an ID, with a summary other than the one
\* that was stored before.
IdempotentUpsertWitness ==
  /\ mirrorCall.op = "store" /\ mirrorCall.ok
  /\ mirrorCall.prior # "" /\ mirrorCall.prior # mirrorCall.summary

\* C9: right after storeProposalInSupabase(id, ...) the read by ID shows
\* executed = false and zero votes; right after updateProposalVotes(id, y, n)
\* it shows exactly yayVotes = y and nayVotes = n; right after
\* updateProposalExecution(id, true) it shows status "marketplace", whether or
\* not the deadline has passed.
MirrorEndToEnd ==
  LET id == mirrorCall.proposalId
      p == ReadById(id)
  IN (mirrorCall.ok /\ id \in ProposalIds /\ RowsOf(id) # {}) =>
       /\ Len(p) = 1
       /\ mirrorCall.op = "store" =>
            (~p[1].executed /\ p[1].yayVotes = 0 /\ p[1].nayVotes = 0)
       /\ mirrorCall.op = "votes" =>
            (p[1].yayVotes = mirrorCall.yay /\ p[1].nayVotes = mirrorCall.nay)
       /\ (mirrorCall.op = "execution" /\ mirrorCall.executed) =>
            (p[1].executed /\ p[1].status = "marketplace")

\* C9 witness: the execution flag is set on a record whose votes were updated
\* before and whose deadline has not passed.
MirrorEndToEndWitness ==
  /\ mirrorCall.op = "execution" /\ mirrorCall.ok /\ mirrorCall.executed
  /\ \E r \in RowsOf(mirrorCall.proposalId) :
       r.yay_votes > 0 /\ DeadlineSec(r) > NowSec

(***************************************************************************)
(* Properties of the membership check                                      *)
(***************************************************************************)
\* the check has ended and every contract read it made failed
AllReadsFailed ==
  /\ check.pc = "done"
  /\ check.attempts > 0
  /\ check.failures = check.attempts

\* C2: when every contract read of a membership check fails and the cache
\* held no record for the address, the check ends with membership false and
\* the cache holds no member = true record for the address.
MembershipFailClosed ==
  (AllReadsFailed /\ ~check.hadRecord) =>
    /\ ~check.memberStatus
    /\ ~isMember
    /\ \A r \in MemberRowsOf(check.address) : ~r.is_member

\* C2 witness: the address is a member on chain, the cache has no record of
\* it and the contract read fails.
MembershipFailClosedWitness ==
  /\ AllReadsFailed
  /\ ~check.hadRecord
  /\ addressToUser[toLowerCase(check.address)]

\* C10: when every contract read fails and the cache held a record that the
\* check could read, the read was tried 3 times, the result is the cached
\* value and the cache record is left as it was.
MembershipRetryAndFallback ==
  (AllReadsFailed /\ check.hadRecord /\ check.cachedMembership = check.recordWas) =>
    /\ check.attempts = 3
    /\ check.memberStatus = check.recordWas
    /\ \A r \in MemberRowsOf(check.address) : r.is_member = check.recordWas


\* C11: when the contract membership read of a check is answered with value
\* v, the membership result and the isMember state are v, and once the cache
\* write is accepted the cache holds exactly one record for the lowercased
\* address, with member = v, whatever record it held before.
AuthoritativeOverwrite ==
  (check.pc = "done" /\ check.answered) =>
    /\ check.memberStatus = check.contractStatus
    /\ isMember = check.contractStatus
    /\ check.stored =>
         /\ Cardinality(MemberRowsOf(check.address)) = 1
         /\ \A r \in MemberRowsOf(check.address) :
              r.is_member = check.contractStatus

\* C11 witness: the cache held the opposite value before the read.
AuthoritativeOverwriteWitness ==
  /\ check.pc = "done" /\ check.answered /\ check.stored
  /\ check.hadRecord
  /\ check.recordWas # check.contractStatus

(***************************************************************************)
(* Properties of the join flow                                             *)
(***************************************************************************)
\* C12: after the join transaction is confirmed the membership is polled at
\* most 10 times; a poll is made only while no poll has returned true and
\* retries are left, each failed poll uses up one retry, the first poll that
\* returns true ends the loop, and a run that has reached the loop ends
\* (verified or unverified) whatever the polls answer.
BoundedJoinVerification ==
  /\ [](/\ joining.polls <= JoinPollRetries
        /\ joining.pc = "poll" =>
             (joining.retries > 0
                /\ joining.polls + joining.retries = JoinPollRetries)
        /\ joining.outcome = "verified" => joining.pc = "done"
        /\ joining.outcome = "unverified" =>
             (joining.pc = "done" /\ joining.polls = JoinPollRetries))
  /\ (joining.pc = "poll") ~> (joining.pc = "done"
                                 /\ joining.outcome \in {"verified", "unverified"})

\* C12 witness: the run ended verified at a poll after the first one, with
\* retries left.
BoundedJoinVerificationWitness ==
  /\ joining.pc = "done"
  /\ joining.outcome = "verified"
  /\ joining.polls > 1
  /\ joining.retries > 0

\* C13: when all 10 polls after a confirmed join fail to return true, the run
\* ends unverified: the user is shown as a member, the toast differs from the
\* one of a verified join, and once the cache write is accepted the cache
\* record of the address is member = true; when a poll returns true the run
\* ends verified, with the toast of the verified join and the same cache
\* record.
UnverifiedJoinOutcome ==
  (joining.pc = "done" /\ joining.outcome \in {"verified", "unverified"}) =>
    /\ txs[joining.tx].status = "confirmed"
    /\ isMember
    /\ joining.outcome = "unverified" =>
         (joining.polls = JoinPollRetries
            /\ joining.toast # "Successfully joined the DAO!")
    /\ joining.outcome = "verified" =>
         joining.toast = "Successfully joined the DAO!"
    /\ joining.stored =>
         /\ Cardinality(MemberRowsOf(joining.address)) = 1
         /\ \A r \in MemberRowsOf(joining.address) : r.is_member

\* C13 witness: all 10 polls failed and the cache write was accepted.
UnverifiedJoinOutcomeWitness ==
  /\ joining.pc = "done"
  /\ joining.outcome = "unverified"
  /\ joining.polls = JoinPollRetries
  /\ joining.stored
  /\ \E r \in MemberRowsOf(joining.address) : r.is_member

(***************************************************************************)
(* Properties of the handlers and the mirror                               *)
(***************************************************************************)
\* the mirror writes: store at creation, vote counts, execution flag
MirrorWrites == {"store", "votes", "execution"}

\* C14: a step that writes to the proposal mirror (or attempts to) is taken
\* only when the transaction of the flow that writes has been confirmed: the
\* createProposal transaction for the store at creation, the executeProposal
\* transaction of that proposal for the execution flag; a write action that
\* ended with an error, and a handler whose transaction reverted, made no
\* mirror write.
MirrorLagsTheChain ==
  /\ [][(mirrorCall'.op \in MirrorWrites
           /\ (mirrorCall' # mirrorCall \/ dao_proposals' # dao_proposals)) =>
          \/ /\ mirrorCall'.op = "store"
             /\ call.fn = "createProposal"
             /\ call.tx # NoTx
             /\ txs[call.tx].fn = "createProposal"
             /\ txs[call.tx].status = "confirmed"
          \/ /\ mirrorCall'.op = "execution"
             /\ handler.name = "handleExecuteProposal"
             /\ handler.tx # NoTx
             /\ txs[handler.tx].fn = "executeProposal"
             /\ txs[handler.tx].proposalId = handler.proposalId
             /\ txs[handler.tx].status = "confirmed"]_vars
  /\ []((callResult.outcome = "error") =>
          \A i \in 1..Len(trace) : trace[i].op # "store")
  /\ []((handler.tx = NoTx \/ txs[handler.tx].status # "confirmed") =>
          handler.mirror = "none")

\* C14 witness: the execution flag of a proposal stored at creation was
\* written after the executeProposal transaction was confirmed.
MirrorLagsTheChainWitness ==
  /\ handler.name = "handleExecuteProposal"
  /\ handler.mirror = "written"
  /\ txs[handler.tx].status = "confirmed"
  /\ \E r \in RowsOf(handler.proposalId) : r.executed

\* C15: when the mirror write after a confirmed createProposal,
\* executeProposal or buyLot transaction fails, the action still ends well for
\* its caller: createProposal returns the confirmed transaction, and the
\* handlers of the proposal page and of the purchase form end with success
\* and throw nothing.
MirrorFailureIsNotActionFailure ==
  /\ (\E i \in 1..Len(trace) :
        trace[i].fn = "createProposal" /\ trace[i].op = "store" /\ ~trace[i].ok) =>
       /\ callResult.fn = "createProposal"
       /\ callResult.outcome = "ok"
       /\ callResult.tx # NoTx
       /\ txs[callResult.tx].status = "confirmed"
  /\ handler.mirror = "failed" =>
       /\ handler.name \in {"handleExecuteProposal", "onSubmit"}
       /\ handler.pc = "done"
       /\ handler.outcome = "success"
       /\ ~handler.thrown
       /\ txs[handler.tx].status = "confirmed"

\* C15 witness: the investment of a confirmed buyLot was not stored.
MirrorFailureIsNotActionFailureWitness ==
  /\ handler.name = "onSubmit"
  /\ handler.mirror = "failed"
  /\ txs[handler.tx].fn = "buyLot"
  /\ investments = {}

\* C16: once handleVote has ended with its vote transaction confirmed and no
\* other vote is in flight, the yay and nay counts stored in the mirror for
\* that proposal equal the counts of the contract.
VoteReconcilesMirror ==
  (/\ handler.name = "handleVote"
   /\ handler.pc = "done"
   /\ handler.outcome = "success"
   /\ Pending("voteProposal") = {}) =>
    \A r \in RowsOf(handler.proposalId) :
      /\ r.yay_votes = idToProposal[handler.proposalId].yayVotes
      /\ r.nay_votes = idToProposal[handler.proposalId].nayVotes

(***************************************************************************)
(* Properties of the proposal reader                                       *)
(***************************************************************************)
\* a call of getProposal returns in this step
GetProposalReturns == reader.fn = "none" /\ reader'.fn = "getProposal"

\* a call of getAllProposals returns in this step
GetAllProposalsReturns == reader.fn = "none" /\ reader'.fn = "getAllProposals"

\* C17: resolving a proposal by ID consults the mirror first: when the mirror
\* holds the ID the result is the mirror's record and neither the struct read
\* nor the event replay is made; the event replay is made only after a struct
\* read that failed.
ReaderSourcePriority ==
  [][GetProposalReturns =>
       /\ ReadById(reader'.proposalId) # <<>> =>
            /\ reader'.result = ReadById(reader'.proposalId)
            /\ reader'.consulted = <<"mirror">>
       /\ reader'.source = "events" => ~reader'.structRead]_vars

ReaderNeverErrors ==
  [][GetProposalReturns =>
       /\ ~reader'.threw
       /\ (/\ ~reader'.structRead
           /\ \/ ~reader'.eventsAnswered
              \/ reader'.proposalId \notin 1..numProposal) =>
            reader'.result = <<>>]_vars

\* C19 witness: the struct read and the event query of an existing proposal
\* failed and null was returned.
ReaderNeverErrorsWitness ==
  /\ reader.fn = "getProposal"
  /\ ~reader.structRead
  /\ ~reader.eventsAnswered
  /\ reader.proposalId \in 1..numProposal
  /\ reader.result = <<>>
  /\ ~reader.threw

\* C20: getAllProposals returns the mirror's bulk read when that is not
\* empty, and makes no contract call then; when it is empty the result holds
\* only proposals of the IDs 1..numProposal(), in strictly descending order
\* of proposalId (so no ID twice).
AllProposalsFromMirrorOrChain ==
  [][GetAllProposalsReturns =>
       /\ Len(mirrorResult') > 0 =>
            /\ reader'.result = mirrorResult'
            /\ reader'.consulted = <<"mirror">>
            /\ provider' = provider
       /\ Len(mirrorResult') = 0 =>
            /\ \A i \in 1..Len(reader'.result) :
                 reader'.result[i].proposalId \in 1..numProposal
            /\ \A i \in 1..(Len(reader'.result) - 1) :
                 reader'.result[i].proposalId > reader'.result[i + 1].proposalId]_vars

\* C20 witness: two proposals were resolved from the chain.
AllProposalsFromMirrorOrChainWitness ==
  /\ reader.fn = "getAllProposals"
  /\ reader.source = "chain"
  /\ Len(reader.result) >= 2

(***************************************************************************)
(* Properties of the write actions                                         *)
(***************************************************************************)
\* the write action in flight, or the last one when none is in flight
CurrentCall == IF call.fn # "none" THEN call ELSE callResult.call

\* the requests named ops that the current write action has made
Made(ops) == {i \in 1..Len(trace) : trace[i].op \in ops}

\* C3: a joinDao call whose contract membership read returned true does not
\* go on: it has ended with the already-a-member error, it made no gas
\* estimation and no send, and it returned no transaction; and a run of
\* handleJoinDao that found the user to be a member already has no join
\* transaction and shows the user as a member.
JoinIdempotence ==
  /\ (CurrentCall.fn = "joinDao" /\ CurrentCall.memberRead = "true") =>
       /\ call.fn = "none"
       /\ callResult.outcome = "error"
       /\ callResult.error = "AlreadyMember"
       /\ callResult.tx = NoTx
       /\ Made({"estimateGas", "send"}) = {}
  /\ joining.outcome = "already" => (joining.tx = NoTx /\ isMember)

\* C3 witness: joinDao itself read the membership of a member (the read of
\* handleJoinDao before it had failed) and threw.
JoinIdempotenceWitness ==
  /\ callResult.fn = "joinDao"
  /\ callResult.call.memberRead = "true"
  /\ callResult.error = "AlreadyMember"
  /\ addressToUser[toLowerCase(callResult.call.address)]
  /\ joining.called

\* C4: a voteProposal call whose proposalId is below 1 or above the
\* numProposal() it read makes no membership read, no gas estimation and no
\* send, and ends with the invalid-proposal-ID error.
VoteRangeValidation ==
  LET c == CurrentCall
  IN (c.fn = "voteProposal" /\ (c.proposalId < 1 \/ c.proposalId > c.maxId)) =>
       /\ Made({"addressToUser", "estimateGas", "send"}) = {}
       /\ (call.fn = "none" /\ c.maxId >= 0) =>
            (callResult.outcome = "error" /\ callResult.error = "InvalidProposalId")

\* C4 witness: a vote on numProposal() + 1 when a proposal exists, refused.
VoteRangeValidationWitness ==
  /\ callResult.fn = "voteProposal"
  /\ callResult.call.maxId >= 1
  /\ callResult.call.proposalId = callResult.call.maxId + 1
  /\ callResult.error = "InvalidProposalId"

\* a failed gas estimation of fn is followed by a submitted send of fn
SentAfterFailedEstimate(fn) ==
  \E i \in 1..Len(trace) : \E j \in (i + 1)..Len(trace) :
    /\ trace[i].fn = fn /\ trace[i].op = "estimateGas" /\ ~trace[i].ok
    /\ trace[j].fn = fn /\ trace[j].op = "send" /\ trace[j].ok

GatedFns == {"joinDao", "createProposal", "voteProposal", "executeProposal"}

VotePreflightOrder ==
  LET c == CurrentCall
  IN /\ \A s \in 1..Len(trace) :
          (trace[s].fn = "voteProposal" /\ trace[s].op = "send") =>
            /\ \E i \in 1..s : \E j \in (i + 1)..s : \E k \in (j + 1)..(s - 1) :
                 /\ trace[i].op = "numProposal" /\ trace[i].ok
                 /\ trace[j].op = "addressToUser"
                 /\ trace[k].op = "estimateGas" /\ trace[k].ok
            /\ c.proposalId >= 1 /\ c.proposalId <= c.maxId
            /\ c.memberRead = "true"
            /\ ~c.estimateFailed
     /\ (c.fn = "voteProposal" /\ c.memberRead = "false") =>
          /\ Made({"estimateGas", "send"}) = {}
          /\ call.fn = "none"
          /\ callResult.outcome = "error"
          /\ callResult.error = "NotMember"
          /\ callResult.tx = NoTx

\* C21 witness: a vote went through the three checks and was sent.
VotePreflightOrderWitness ==
  /\ callResult.fn = "voteProposal"
  /\ callResult.outcome = "ok"
  /\ callResult.tx # NoTx
  /\ txs[callResult.tx].fn = "voteProposal"
  /\ Made({"send"}) # {}

\* C21 witness of the refusal: the membership check of a vote returned false.
VoteRefusedNotMember ==
  /\ callResult.fn = "voteProposal"
  /\ callResult.call.memberRead = "false"
  /\ callResult.error = "NotMember"
\* the answered requests named op that fn has made in the current call
Answered(fn, op) ==
  {i \in 1..Len(trace) : trace[i].fn = fn /\ trace[i].op = op /\ trace[i].ok}

\* the step of a buyLot call at which approveUSDC gets its allowance read
\* answered
AllowanceReadInBuyLot ==
  /\ call.fn = "approveUSDC" /\ call.caller = "buyLot" /\ call.pc = "allowance"
  /\ Len(trace') = Len(trace) + 1
  /\ trace'[Len(trace')].ok

\* C22: a buyLot call whose balance read is below the amount sends no
\* approve and no buyLot transaction; when the allowance read is at least the
\* amount the call sends no approve transaction and goes on to buyLot's own
\* send; otherwise the approve transaction it sent is confirmed before the
\* buyLot transaction is sent.
BuyLotPreflight ==
  /\ [](LET c == CurrentCall
        IN RootFn(c) = "buyLot" =>
             /\ (call.fn = "none" /\ callResult.error = "InsufficientBalance") =>
                  /\ Made({"allowance", "send"}) = {}
                  /\ callResult.tx = NoTx
             /\ Made({"send"}) # {} =>
                  /\ Answered("buyLot", "balanceOf") # {}
                  /\ balanceOf[toLowerCase(c.address)] >= c.amount
             /\ \A s \in Made({"send"}) :
                  trace[s].fn = "buyLot" =>
                    IF c.approveTx = NoTx
                      THEN Made({"send"}) = {s}
                      ELSE /\ txs[c.approveTx].fn = "approveUSDC"
                           /\ txs[c.approveTx].status = "confirmed"
                           /\ \E i \in Answered("approveUSDC", "send") :
                                \E j \in Answered("buyLot", "wait") : i < j /\ j < s)
  /\ [][AllowanceReadInBuyLot =>
          IF allowance[toLowerCase(call.address)] >= call.amount
            THEN /\ call'.fn = "buyLot" /\ call'.pc = "fee"
                 /\ call'.approveTx = NoTx
                 /\ txs' = txs
            ELSE call'.fn = "approveUSDC" /\ call'.pc = "fee"]_vars

\* C22 witness: buyLot was sent after the approve transaction of the same
\* call was confirmed.
BuyLotPreflightWitness ==
  /\ callResult.fn = "buyLot"
  /\ callResult.outcome = "ok"
  /\ callResult.call.approveTx # NoTx
  /\ txs[callResult.call.approveTx].status = "confirmed"
  /\ txs[callResult.tx].fn = "buyLot"

\* C22 witness of the skipped approval: buyLot was sent without an approve
\* transaction, the allowance being enough.
BuyLotWithoutApproval ==
  /\ callResult.fn = "buyLot"
  /\ callResult.outcome = "ok"
  /\ callResult.call.approveTx = NoTx
  /\ Answered("approveUSDC", "allowance") # {}

\* C22 witness of the refusal: buyLot ended at its balance check.
BuyLotInsufficientBalance ==
  /\ callResult.fn = "buyLot"
  /\ callResult.error = "InsufficientBalance"
\* a write action of the session waits between its answered gas estimation
\* and its send
WaitsBeforeSend(c) ==
  /\ c.fn # "none"
  /\ c.pc \in {"fee", "send"}
  /\ c.gasEstimate > 0

\* C23 as stated: while a write action of the session waits between its gas
\* estimation and its send, no other write action of the session sends a
\* transaction (a second one is queued or rejected).
WriteSerialization ==
  [][WaitsBeforeSend(suspended.call) => Len(txs') = Len(txs)]_vars
\* C24 as stated: in every write action a fee-data query that throws does
\* not end the action: the action goes on with a fixed default gas price.
FeeDataFallback ==
  \A i \in Made({"getFeeData"}) :
    (~trace[i].ok /\ i = Len(trace)) =>
      /\ call.fn = trace[i].fn
      /\ call.pc \in {"estimate", "send"}
      /\ call.gasPrice \in {OneGwei, TwentyGwei}
\* the step at which a write action sends a transaction after its gas
\* estimation was answered
SendsEstimated ==
  /\ call.fn # "none"
  /\ call.pc = "send"
  /\ ~call.estimateFailed
  /\ Len(txs') = Len(txs) + 1

\* C25: a transaction sent after its gas estimation was answered with E has
\* the gas limit E + floor(E / 5), in each of the seven write actions.
GasBuffer ==
  [][SendsEstimated =>
       LET E == call.gasEstimate
           t == txs'[Len(txs')]
       IN /\ E \in Estimates
          /\ t.fn = call.fn
          /\ t.estimated
          /\ 5 * (t.gasLimit - E) <= E
          /\ 5 * (t.gasLimit - E + 1) > E]_vars

\* C25 witness: a vote was sent with gas limit 10 for the estimate 9.
GasBufferWitness ==
  \E k \in 1..Len(txs) :
    /\ txs[k].fn = "voteProposal"
    /\ txs[k].estimated
    /\ txs[k].gasLimit = 10
    /\ callResult.tx = k
    /\ callResult.call.gasEstimate = 9
\* the functions that read the wallet for the pages
WalletReads == {"initializeProvider", "getCurrentAddress"}

\* C26: initializeProvider and getCurrentAddress make no eth_requestAccounts
\* request, only eth_accounts and eth_chainId, and leave the signer as it was
\* or null; a signer is created and eth_requestAccounts is made only in the
\* connectWithMetamask step of a write action.
NoPopupReads ==
  /\ [](\A i \in 1..Len(trace) :
          trace[i].fn \in WalletReads => trace[i].op \in {"eth_accounts", "eth_chainId"})
  /\ [][callResult'.fn \in WalletReads => (signer' = signer \/ signer' = "")]_vars
  /\ [][(signer' # signer /\ signer' # "") =>
          /\ call.pc = "connect"
          /\ trace'[Len(trace')].op = "eth_requestAccounts"
          /\ trace'[Len(trace')].ok]_vars
  /\ [][(Made({"eth_requestAccounts"}) = {} /\ trace' # <<>>
          /\ trace'[Len(trace')].op = "eth_requestAccounts") =>
          call.pc = "connect"]_vars

\* C26 witness: getCurrentAddress found the account through eth_accounts
\* after initializeProvider had set the signer of an earlier connection to
\* null.
NoPopupReadsWitness ==
  /\ callResult.fn = "getCurrentAddress"
  /\ callResult.call.address # ""
  /\ signer = ""
  /\ wallet.authorized
  /\ \E i \in 1..Len(trace) : trace[i].op = "eth_accounts" /\ trace[i].ok
\* C27 as stated: in a call of switchToEtherlinkNetwork an accepted add-chain
\* request is followed by a second switch request, and a call in which the
\* user rejected the switch or the add-chain request ends with an error.
NetworkSwitchRetries ==
  callResult.fn = "switchToEtherlinkNetwork" =>
    /\ \A i \in Made({"wallet_addEthereumChain"}) :
         /\ i > 1 /\ trace[i - 1].op = "wallet_switchEthereumChain"
         /\ trace[i].ok =>
              \E j \in (i + 1)..Len(trace) : trace[j].op = "wallet_switchEthereumChain"
    /\ ((Len(trace) = 1 /\ ~trace[1].ok)
          \/ (\E i \in Made({"wallet_addEthereumChain"}) : ~trace[i].ok)) =>
         callResult.outcome = "error"
\* C28 as stated: the proposal getProposal returns, from the struct or from
\* the events, has the status the mirror derives from its deadline and its
\* executed flag: marketplace when executed, else closed when the deadline
\* has passed, else voting.
StatusOnEveryReadPath ==
  [][(GetProposalReturns /\ Len(reader'.result) = 1) =>
       LET p == reader'.result[1]
       IN p.status = DeriveStatus(p.deadline, NowSec, p.executed)]_vars
\* the step at which the executeProposal transaction k is mined
MinesExecute(k) ==
  /\ txs[k].fn = "executeProposal"
  /\ txs[k].status = "pending"
  /\ txs'[k].status # "pending"

\* C29: a mined executeProposal(id) is rejected exactly when its sender is
\* no member or the executed flag of id is set; when it is not rejected it
\* sets the executed flag of proposal numProposal and changes no other
\* proposal, so that for id other than numProposal the flag of id stays as
\* it was and the next executeProposal(id) is not rejected either.
ExecuteMarksLatest ==
  [][\A k \in 1..Len(txs) :
       MinesExecute(k) =>
         LET id == txs[k].proposalId
         IN /\ (txs'[k].status = "reverted") <=>
                 (~onlyMember(txs[k].from) \/ idToProposal[id].executed)
            /\ txs'[k].status = "reverted" => idToProposal' = idToProposal
            /\ txs'[k].status = "confirmed" =>
                 /\ idToProposal'[numProposal].executed
                 /\ \A i \in DOMAIN idToProposal :
                      i # numProposal => idToProposal'[i] = idToProposal[i]
                 /\ id # numProposal => ~idToProposal'[id].executed]_vars

\* C29 witness: executeProposal(1) was confirmed twice while there are two
\* proposals; proposal 2 is marked executed and proposal 1 is not.
ExecuteMarksLatestWitness ==
  /\ numProposal = 2
  /\ idToProposal[2].executed
  /\ ~idToProposal[1].executed
  /\ \E j \in 1..Len(txs) : \E k \in (j + 1)..Len(txs) :
       /\ txs[j].fn = "executeProposal" /\ txs[j].proposalId = 1
       /\ txs[j].status = "confirmed"
       /\ txs[k].fn = "executeProposal" /\ txs[k].proposalId = 1
       /\ txs[k].status = "confirmed"
\* C30 as stated: every proposal whose mirror row has executed = true has
\* its executed flag set in the contract.
MirrorChainAgreement ==
  \A r \in dao_proposals :
    r.executed => idToProposal[r.proposal_id].executed
\* C31 as stated: the mirror write of createProposal stores its record under
\* the ID the contract assigned in the call's own transaction, whatever else
\* was confirmed before the ID was looked up, and changes the record of no
\* other proposal.
MirrorKeyedByAssignedId ==
  [][(call.pc = "store" /\ call'.fn = "none") =>
       \A r \in dao_proposals' \ dao_proposals :
         r.proposal_id = txs[call.tx].newId]_vars
\* C32 as stated: getCurrentAddress returns the account the wallet has
\* selected now (or null), also after the account was changed, and a write
\* action is signed by the account the wallet has selected when it connects.
SessionFollowsAccount ==
  /\ [][(callResult'.fn = "getCurrentAddress" /\ callResult' # callResult) =>
          callResult'.call.address \in {"", wallet.account}]_vars
  /\ [][(call.pc = "connect" /\ call'.pc # "connect" /\ call'.fn # "none"
          /\ wallet.installed) =>
          (call'.from = wallet.account /\ call'.address = wallet.account)]_vars
\* the handlers of the DAO page have all run to their end
PageQuiescent ==
  /\ check.pc \in {"idle", "done"}
  /\ accountsChanged.pc \in {"idle", "done"}
  /\ joining.pc \in {"idle", "done"}
\* a join transaction of the address has been confirmed
JoinConfirmedOf(address) ==
  \E i \in 1..Len(txs) :
    /\ txs[i].fn = "joinDao"
    /\ txs[i].status = "confirmed"
    /\ txs[i].from = address
\* C33 as stated: once the join, account-change and mount handlers of the
\* DAO page have run to their end, the member flag is true only if the
\* address the page shows is a member in the contract or in the cache, or is
\* the address whose join transaction was confirmed.
DisplayedMembership ==
  (PageQuiescent /\ isMember /\ walletAddress # "") =>
    \/ addressToUser[toLowerCase(walletAddress)]
    \/ getDaoMembership(walletAddress, TRUE)
    \/ JoinConfirmedOf(walletAddress)
\* C34 as stated: a join transaction is never submitted for an address the
\* contract already records as a member, also when the contract read of the
\* pre-check fails or no current address can be determined.
NoPaidRejoin ==
  [][(Len(txs') = Len(txs) + 1 /\ txs'[Len(txs')].fn = "joinDao") =>
       ~addressToUser[toLowerCase(txs'[Len(txs')].from)]]_vars
\* C35 as stated: when two callers have each read a proposal's counts from
\* the mirror and each call updateProposalVotes with their own new totals,
\* the counts stored after a write are the totals of that write, whatever
\* was stored before it.
LastWriterWins ==
  [][\A c \in Callers :
       (callers[c].pc = "read" /\ callers'[c].pc = "wrote" /\ callers'[c].ok) =>
         \A r \in dao_proposals' :
           r.proposal_id = callers[c].proposalId =>
             (r.yay_votes = callers[c].yayVotes /\ r.nay_votes = callers[c].nayVotes)]_vars
\* both callers read the same counts of a proposal and both writes were
\* applied: the mirror's total is one above what they read, with two votes
\* confirmed
LastWriterWinsWitness ==
  /\ \A c \in Callers : callers[c].pc = "wrote" /\ callers[c].ok
  /\ callers["first"].proposalId = callers["second"].proposalId
  /\ callers["first"].readYay = callers["second"].readYay
  /\ callers["first"].readNay = callers["second"].readNay
  /\ \E r \in dao_proposals :
       /\ r.proposal_id = callers["first"].proposalId
       /\ r.yay_votes + r.nay_votes
            = callers["first"].readYay + callers["first"].readNay + 1
       /\ r.yay_votes + r.nay_votes
            < callers["first"].readYay + callers["first"].readNay + Cardinality(Callers)
\* C36 as stated: voteProposal succeeds only for a member, on a proposal that
\* was created and whose deadline is in the future, and at most once per
\* proposal and address: after any sequence of votes yayVotes + nayVotes of a
\* proposal is the number of addresses recorded as having voted on it, and a
\* vote is counted only together with recording its sender.
ContractVotingRules ==
  /\ [](\A p \in DOMAIN idToProposal :
          idToProposal[p].yayVotes + idToProposal[p].nayVotes
            = Cardinality(idToProposal[p].voted))
  /\ [][\A p \in DOMAIN idToProposal :
          /\ \A a \in idToProposal'[p].voted \ idToProposal[p].voted :
               /\ addressToUser[a]
               /\ idToProposal[p].deadline > NowSec
               /\ p \in 1..numProposal
          /\ (idToProposal'[p].yayVotes # idToProposal[p].yayVotes
                \/ idToProposal'[p].nayVotes # idToProposal[p].nayVotes) =>
               idToProposal'[p].voted # idToProposal[p].voted]_vars
\* both addresses have voted on a proposal, one yay and one nay, and its
\* deadline has passed since
ContractVotingRulesWitness ==
  \E p \in 1..numProposal :
    /\ Cardinality(idToProposal[p].voted) = 2
    /\ idToProposal[p].yayVotes = 1
    /\ idToProposal[p].nayVotes = 1
    /\ ~(idToProposal[p].deadline > NowSec)
\* the IDs of the rows of a table
IdsOf(table) == {r.proposal_id : r \in table}
\* C37 as stated: updateProposalVotes(id, ...) changes only yay_votes and
\* nay_votes, and updateProposalExecution(id, ...) only executed, of the
\* record keyed by id (updated_at is not kept in the rows of the model); the
\* proposal_id and the other fields of that record and every other record
\* are unchanged, and without a record of that id none is created although
\* the call reports success.
MirrorUpdateFrame ==
  [][(mirrorCall'.op \in {"votes", "execution"} /\ mirrorCall'.ok) =>
       /\ IdsOf(dao_proposals') = IdsOf(dao_proposals)
       /\ Cardinality(dao_proposals') = Cardinality(dao_proposals)
       /\ \A r \in dao_proposals :
            r.proposal_id # mirrorCall'.proposalId => r \in dao_proposals'
       /\ \A r \in dao_proposals : \A q \in dao_proposals' :
            (r.proposal_id = mirrorCall'.proposalId /\ q.proposal_id = r.proposal_id) =>
              IF mirrorCall'.op = "votes"
                THEN q = [r EXCEPT !.yay_votes = mirrorCall'.yay,
                                   !.nay_votes = mirrorCall'.nay]
                ELSE q = [r EXCEPT !.executed = mirrorCall'.executed]]_vars
\* an update of the votes of a proposal that has no record was answered with
\* success while another proposal has a record, and no record was created
MirrorUpdateFrameWitness ==
  /\ mirrorCall.op = "votes"
  /\ mirrorCall.ok
  /\ RowsOf(mirrorCall.proposalId) = {}
  /\ \E r \in dao_proposals : r.executed /\ r.yay_votes + r.nay_votes > 0
\* C38 as stated: without an injected wallet every write action (joinDao,
\* createProposal, voteProposal, executeProposal, buyLot, approveUSDC,
\* mintUSDC, withdraw) fails with an error and submits no transaction, while
\* the read-only calls are answered through the fallback RPC connection.
WritesNeedSigningSession ==
  /\ [][~wallet.installed => txs' = txs]_vars
  /\ [][(~wallet.installed /\ call.pc = "connect" /\ call' # call) =>
          /\ call' = IdleCall
          /\ callResult'.fn = call.fn
          /\ callResult'.outcome = "error"
          /\ callResult'.tx = NoTx]_vars
  /\ [][(~wallet.installed /\ reader.fn = "none" /\ reader'.fn = "getProposal") =>
          /\ provider' = "rpc"
          /\ reader'.structRead =>
               /\ ~reader'.threw
               /\ reader'.source = "struct"
               /\ (idToProposal[reader'.proposalId].deadline # 0 =>
                     Len(reader'.result) = 1)]_vars
\* without a wallet withdraw has failed with an error and a proposal of the
\* chain has been read through the RPC connection
WritesNeedSigningSessionWitness ==
  /\ ~wallet.installed
  /\ callResult.fn = "withdraw"
  /\ callResult.outcome = "error"
  /\ txs = <<>>
  /\ provider = "rpc"
  /\ reader.fn = "getProposal"
  /\ Len(reader.result) = 1
====
